---- MODULE Spec2Model ----
(***************************************************************************)
(* go-portalloc: port allocator, isolation-id generator and lock registry, *)
(* environment manager, and the state store with its reconciler, modelled  *)
(* as processes that step through the operations of pkg/ports,             *)
(* pkg/isolation and pkg/state against one shared filesystem.              *)
(***************************************************************************)
EXTENDS Integers, Sequences, FiniteSets, TLC

(***************************************************************************)
(* Bounds of the model.                                                    *)
(***************************************************************************)
\* CreateEnvironment calls that may be started in one behaviour
MaxCreates == 2
\* EndPort - StartPort of the AllocatorConfig in use
PortSpan == 5
\* Config.MaxRetries of the IDGenerator in use
IdMaxRetries == 2
\* AllocatorConfig.MaxRetries of the Allocator in use
AllocMaxRetries == 1
\* state-store calls that may be started in one behaviour
MaxStoreOps == 3
\* Reconcile calls among them
MaxReconciles == 2
\* the seconds the clock may advance
MaxTime == 2
\* AllocatorConfig.MaxRetries of the Allocator that is called directly
MaxRetries == 2

(***************************************************************************)
(* Program constants.                                                      *)
(***************************************************************************)
DefaultStartPort == 20000

(***************************************************************************)
(* The callers and the inputs they draw from.                              *)
(***************************************************************************)
\* the concurrent callers (goroutines, each in some OS process)
Procs == {1, 2}
\* the values of hash[:6] that Generate may compute
Bases == {1}
\* the values of additionalRandom % 10000 that a collision retry may draw
Rands == {0}
\* Config.WorktreePath of the managers in use
Worktrees == {1, 2}
\* portsNeeded
PortCounts == {0, 2}
\* the ids of the hand-built environments given to the state store
SampleIds == {<<1>>, <<2>>}

StartPort == DefaultStartPort
EndPort == StartPort + PortSpan

NoPath == <<>>
NoId == <<>>
NoEnv == [ID |-> NoId]

\* file contents: a file of size 0, a file that cannot be opened or read, a
\* file without a single KEY=value line the reader looks for
EmptyFile == [kind |-> "empty"]
Unreadable == [kind |-> "unreadable"]
InvalidContent == [kind |-> "invalid content"]

\* the lines CreateLock writes: PID=, Timestamp=, Worktree=
LockMetadata(pid, timestamp, worktree) ==
    [kind |-> "metadata", PID |-> pid, Timestamp |-> timestamp, Worktree |-> worktree]

VARIABLES
    pc,        \* pc[p]: where process p stands in the operation it runs
    loc,       \* loc[p]: the locals of that operation
    res,       \* res[p]: what p's last finished call returned
    lockDir,   \* the lock directory: file name -> content
    tmpDirs,   \* the temp directories that exist (paths)
    envFiles,  \* the descriptor files that exist: path -> content
    bound,     \* the TCP ports some listener holds
    envs,      \* the handles CreateEnvironment has returned, each with its bookkeeping
    nCreates,  \* CreateEnvironment calls started so far
    now,       \* the clock (Unix seconds)
    errSeen,   \* whether some CreateEnvironment or Cleanup call has returned an error
    won,       \* won[id]: callers whose CreateLock(id) succeeded since id was last unlocked
    lost,      \* lost[id]: callers whose CreateLock(id) failed since id was last unlocked
    racers,    \* racers[id]: callers that stood before CreateLock(id) at once, id unlocked
    osProc,    \* osProc[p]: the OS process caller p runs in (its PID, its Manager)
    stateFile, \* the state document's file: missing, empty, or a document
    flockEx,   \* the caller holding LOCK_EX on the state file, or 0
    flockSh,   \* the callers holding LOCK_SH on the state file
    mu,        \* mu[m]: the caller holding Manager.mu of OS process m, or 0
    sloc,      \* sloc[p]: the locals of p's state-store operation
    sres,      \* sres[p]: what p's last finished state-store call returned
    committed, \* the environment list last written whole to the state file
    obs,       \* obs[p]: the lists committed while p's current or last read ran
    opLog,     \* the mutating state-store calls that have returned without error
    nStoreOps, \* state-store calls started so far
    procTable, \* procTable[pid]: what the OS knows of the process with that pid
    cli        \* cli[p]: the locals of the cleanup --stale command p runs

osVars == <<osProc, procTable, cli>>

storeVars == <<osVars, stateFile, flockEx, flockSh, mu, sloc, sres, committed, obs,
               opLog, nStoreOps>>

envVars == <<lockDir, tmpDirs, envFiles, bound, envs, nCreates, errSeen, won, lost, racers>>

vars == <<pc, loc, res, now, envVars, storeVars>>

fsVars == <<lockDir, tmpDirs, envFiles>>
raceVars == <<won, lost, racers>>

(***************************************************************************)
(* Paths and identifiers.                                                  *)
(***************************************************************************)
\* fmt.Sprintf("%x", hash[:6]) on the first attempt; baseID + %04d + %03d after
CandidateID(b, r, k) == IF k = 0 THEN <<b>> ELSE <<b, r, k>>

AllIds == {CandidateID(b, r, k) : b \in Bases, r \in Rands, k \in 0..IdMaxRetries}

\* <LockDir>/env-<id>.lock, <TempDir>/aigis-test-<id>, <worktree>/.env.isolation
LockName(id) == <<"env-*.lock", id>>
TmpPath(id) == <<"aigis-test-*", id>>
EnvFilePath(w) == <<".env.isolation", <<w>>>>

\* the bytes of the SHA-256 sum Generate keeps: hash[:6]
HashBytes == 6

HexDigits == <<"0", "1", "2", "3", "4", "5", "6", "7", "8", "9", "a", "b", "c", "d", "e", "f">>

\* the digits of n >= 0 in base 16
RECURSIVE Hex(_)
Hex(n) == IF n < 16 THEN HexDigits[n + 1] ELSE Hex(n \div 16) \o HexDigits[(n % 16) + 1]

\* s, with zeros in front of it up to width w
RECURSIVE ZeroPad(_, _)
ZeroPad(s, w) == IF Len(s) >= w THEN s ELSE ZeroPad("0" \o s, w)

\* a conversion that does not pad
Sprintf0d_NoPad(n, w) == ToString(n)

\* fmt.Sprintf("%0<w>d", n): the sign counts for the width
Sprintf0d(n, w) ==
    IF n < 0 THEN "-" \o ZeroPad(ToString(0 - n), w - 1) ELSE ZeroPad(ToString(n), w)

\* fmt.Sprintf("%x", hash[:6]) for the hash prefix of value b: two digits a byte
BaseIDString(b) == ZeroPad(Hex(b), 2 * HashBytes)

\* the string Generate returns for a candidate
IsolationIDString(id) ==
    IF Len(id) = 1 THEN BaseIDString(id[1])
    ELSE BaseIDString(id[1]) \o Sprintf0d(id[2], 4) \o Sprintf0d(id[3], 3)

\* whether the one-character string c is a decimal digit
IsDigit(c) == \E d \in 0..9 : HexDigits[d + 1] = c

\* the value of the first k characters of the digit string s in the given base
RECURSIVE DigitsValueIn(_, _, _)
DigitsValueIn(s, k, base) ==
    IF k = 0 THEN 0
    ELSE base * DigitsValueIn(s, k - 1, base)
         + (CHOOSE d \in 0..9 : HexDigits[d + 1] = SubSeq(s, k, k))

\* the value of a string of decimal digits, read in base 8
DigitsValue_Octal(s) == DigitsValueIn(s, Len(s), 8)

\* the value of a string of decimal digits
DigitsValue(s) == DigitsValueIn(s, Len(s), 10)

\* strconv.Atoi: <<value, err>>; an optional sign, then digits and nothing else
Atoi(s) ==
    LET Signed(text) == Len(text) > 0 /\ SubSeq(text, 1, 1) \in {"+", "-"}
        Value(text, digits) ==
            IF Len(digits) = 0 \/ \E i \in 1..Len(digits) : ~IsDigit(SubSeq(digits, i, i))
            THEN <<0, TRUE>>
            ELSE <<IF SubSeq(text, 1, 1) = "-" THEN 0 - DigitsValue(digits)
                   ELSE DigitsValue(digits), FALSE>>
    IN  CHOOSE r \in {Value(text, digits) :
                         text \in {s},
                         digits \in {IF Signed(s) THEN SubSeq(s, 2, Len(s)) ELSE s}} : TRUE

\* a check that sees the files of the lock directory only
fileExists_LocksOnly(path) == path \in DOMAIN lockDir

fileExists(path) == path \in DOMAIN lockDir \/ path \in tmpDirs \/ path \in DOMAIN envFiles

IsLocked(id) == LockName(id) \in DOMAIN lockDir

\* a removal that removes nothing
Without_Keep(f, x) == f

\* a removal that takes every file with it
Without_All(f, x) == [y \in {} |-> f[y]]

\* a function without one point of its domain (os.Remove)
Without(f, x) == [y \in DOMAIN f \ {x} |-> f[y]]

\* a function with one point set (create or overwrite)
With(f, x, v) == [y \in DOMAIN f \cup {x} |-> IF y = x THEN v ELSE f[y]]

(***************************************************************************)
(* PortRange.                                                              *)
(***************************************************************************)
PortRange(base, count) == [BasePort |-> base, Count |-> count]

Ports(pr) == [i \in 1..pr.Count |-> pr.BasePort + (i - 1)]

PortSet(pr) == {pr.BasePort + i : i \in 0..(pr.Count - 1)}

\* a GetPort that lets the index Count through
GetPort_Inclusive(pr, index) ==
    IF index < 0 \/ index > pr.Count THEN <<0, TRUE>> ELSE <<pr.BasePort + index, FALSE>>

\* GetPort: <<port, err>>
GetPort(pr, index) ==
    IF index < 0 \/ index >= pr.Count THEN <<0, TRUE>> ELSE <<pr.BasePort + index, FALSE>>

(***************************************************************************)
(* Port allocator.                                                         *)
(***************************************************************************)
isPortAvailable(port) == port \notin bound

\* a check that probes the first port of the range only
arePortsAvailable_FirstOnly(basePort, count) == isPortAvailable(basePort)

arePortsAvailable(basePort, count) ==
    \A i \in 0..(count - 1) : isPortAvailable(basePort + i)

IsPortInUse(port) == ~isPortAvailable(port)

(***************************************************************************)
(* Locals.                                                                 *)
(***************************************************************************)
\* errors is the slice Cleanup collects; attempted, failed, seen and stable
\* are history of the call in progress, dropped when it returns; i, listener,
\* ports and unavailable are the locals of an allocator call, probes the
\* history of its probes: <<port, found bindable>>, those of the current
\* attempt for AllocateRange
NoLoc == [n |-> 0, w |-> 0, base |-> 0, ctr |-> 0, id |-> NoId, att |-> 0,
          bp |-> 0, snap |-> {}, env |-> NoEnv, caller |-> "none",
          errors |-> << >>, attempted |-> {}, failed |-> {},
          seen |-> << >>, stable |-> TRUE,
          i |-> 0, listener |-> 0, ports |-> << >>, unavailable |-> << >>,
          probes |-> << >>]

\* the messages of the three steps of Cleanup, in the order of the steps
ErrRemoveTempDir == "failed to remove temp dir"
ErrRemoveEnvFile == "failed to remove env file"
ErrReleaseLock == "failed to release lock"

\* fmt's %v of a slice of errors
RECURSIVE JoinErrors(_)
JoinErrors(errors) ==
    IF errors = << >> THEN ""
    ELSE IF Len(errors) = 1 THEN errors[1]
    ELSE errors[1] \o " " \o JoinErrors(Tail(errors))

\* only the first error of the slice is reported
CleanupError_FirstOnly(errors) == "cleanup errors: [" \o errors[1] \o "]"

\* fmt.Errorf("cleanup errors: %v", errors)
CleanupError(errors) == "cleanup errors: [" \o JoinErrors(errors) \o "]"

\* the slices of errors a Cleanup call can end with
ErrorSlices ==
    {<<ErrRemoveTempDir>>, <<ErrRemoveEnvFile>>, <<ErrReleaseLock>>,
     <<ErrRemoveTempDir, ErrRemoveEnvFile>>, <<ErrRemoveTempDir, ErrReleaseLock>>,
     <<ErrRemoveEnvFile, ErrReleaseLock>>,
     <<ErrRemoveTempDir, ErrRemoveEnvFile, ErrReleaseLock>>}

\* the errors of Validate
ErrLockMissing == "lock file missing"
ErrTempDirMissing == "temp directory missing"
ErrEnvFileMissing == "env file missing"

ValidateErrors == {ErrLockMissing, ErrTempDirMissing, ErrEnvFileMissing}

ErrorResults ==
    {"errGenerate", "errLock", "errLockWrite", "errAlloc", "errMkdir", "errEnvFile"}
        \cup {CleanupError(errors) : errors \in ErrorSlices}
        \cup ValidateErrors

\* the call of p returns r
Return(p, r) ==
    /\ pc' = [pc EXCEPT ![p] = "idle"]
    /\ loc' = [loc EXCEPT ![p] = NoLoc]
    /\ res' = [res EXCEPT ![p] = r]
    /\ errSeen' = (errSeen \/ r \in ErrorResults)

(***************************************************************************)
(* IDGenerator.Generate                                                    *)
(***************************************************************************)
\* CreateEnvironment(portsNeeded) is entered by a manager configured with
\* worktree w; Generate draws the hash of its entropy inputs
BeginCreate(p) ==
    /\ pc[p] = "idle"
    /\ nCreates < MaxCreates
    /\ \E n \in PortCounts, w \in Worktrees, b \in Bases :
          loc' = [loc EXCEPT ![p] = [NoLoc EXCEPT !.n = n, !.w = w, !.base = b,
                                                  !.caller = "create"]]
    /\ pc' = [pc EXCEPT ![p] = "gen"]
    /\ nCreates' = nCreates + 1
    /\ UNCHANGED <<res, errSeen, fsVars, bound, envs, now, raceVars>>
    /\ UNCHANGED storeVars

\* one pass of the collision loop
GenerateCheck(p) ==
    /\ pc[p] = "gen"
    /\ \E r \in Rands :
          LET isolationID == CandidateID(loc[p].base, r, loc[p].ctr)
              collides == fileExists(LockName(isolationID)) \/ fileExists(TmpPath(isolationID))
          IN  IF ~collides
              THEN /\ loc' = [loc EXCEPT ![p].id = isolationID]
                   /\ pc' = [pc EXCEPT ![p] = "lock"]
                   /\ UNCHANGED <<res, errSeen>>
                   /\ LET poised == {q \in Procs \ {p} :
                                        pc[q] = "lock" /\ loc[q].id = isolationID}
                      IN  racers' = IF poised # {}
                                    THEN [racers EXCEPT ![isolationID] = @ \cup poised \cup {p}]
                                    ELSE racers
              ELSE /\ racers' = racers
                   /\ IF loc[p].ctr + 1 < IdMaxRetries
                      THEN /\ loc' = [loc EXCEPT ![p].ctr = loc[p].ctr + 1]
                           /\ UNCHANGED <<pc, res, errSeen>>
                      ELSE Return(p, "errGenerate")
    /\ UNCHANGED <<fsVars, bound, envs, nCreates, now, won, lost>>
    /\ UNCHANGED storeVars

(***************************************************************************)
(* IDGenerator.CreateLock / ReleaseLock                                    *)
(***************************************************************************)
\* os.OpenFile(lockFile, O_CREATE|O_EXCL|O_WRONLY): may the file be created?
\* O_CREATE without O_EXCL: the open succeeds whether or not the file exists
ExclusiveCreateOK_NoExcl(name) == TRUE

\* an open that refuses only a lock whose metadata is not written yet
ExclusiveCreateOK_Overwrite(name) == name \notin DOMAIN lockDir \/ lockDir[name] # EmptyFile

ExclusiveCreateOK(name) == name \notin DOMAIN lockDir

\* a release that leaves the lock file in place
ReleaseLock_Keep(id) == lockDir

\* the directory after os.Remove(lockFile); a missing file is no error
ReleaseLock(id) == Without(lockDir, LockName(id))

\* the race bookkeeping once the lock file of id is removed
RaceReset(id) ==
    /\ won' = [won EXCEPT ![id] = {}]
    /\ lost' = [lost EXCEPT ![id] = {}]
    /\ racers' = [racers EXCEPT ![id] = {}]

CreateLockOpen(p) ==
    /\ pc[p] = "lock"
    /\ LET id == loc[p].id
       IN  IF ExclusiveCreateOK(LockName(id))
           THEN /\ lockDir' = With(lockDir, LockName(id), EmptyFile)
                /\ pc' = [pc EXCEPT ![p] = "meta"]
                /\ won' = [won EXCEPT ![id] = won[id] \cup {p}]
                /\ UNCHANGED <<loc, res, errSeen, lost>>
           ELSE /\ lost' = [lost EXCEPT ![id] = lost[id] \cup {p}]
                /\ Return(p, "errLock")
                /\ UNCHANGED <<lockDir, won>>
    /\ UNCHANGED <<tmpDirs, envFiles, bound, envs, nCreates, now, racers>>
    /\ UNCHANGED storeVars

\* f.WriteString(metadata)
CreateLockWrite(p) ==
    /\ pc[p] = "meta"
    /\ lockDir' = [lockDir EXCEPT ![LockName(loc[p].id)] =
                      LockMetadata(osProc[p], now, loc[p].w)]
    /\ pc' = [pc EXCEPT ![p] = "alloc"]
    /\ UNCHANGED <<loc, res, errSeen, tmpDirs, envFiles, bound, envs, nCreates, now, raceVars>>
    /\ UNCHANGED storeVars

(***************************************************************************)
(* EnvironmentManager.CreateEnvironment, after the lock                    *)
(***************************************************************************)
\* a rollback that leaves the lock behind
RollbackLock_Skip(p) == UNCHANGED <<lockDir, won, lost, racers>>

\* what CreateEnvironment undoes when a step after CreateLock fails
RollbackLock(p) ==
    /\ lockDir' = ReleaseLock(loc[p].id)
    /\ RaceReset(loc[p].id)

\* one attempt of Allocator.AllocateRange
AllocateAttempt(p) ==
    /\ pc[p] = "alloc"
    /\ LET n == loc[p].n
           portRange == EndPort - StartPort - n
       IN  IF n <= 0 \/ portRange <= 0
           THEN /\ RollbackLock(p)
                /\ Return(p, "errAlloc")
           ELSE \E offset \in 0..(portRange - 1) :
                  LET basePort == StartPort + offset
                  IN  IF arePortsAvailable(basePort, n)
                      THEN /\ loc' = [loc EXCEPT ![p].bp = basePort, ![p].snap = bound]
                           /\ pc' = [pc EXCEPT ![p] = "mkdir"]
                           /\ UNCHANGED <<res, errSeen, lockDir, raceVars>>
                      ELSE IF loc[p].att + 1 < AllocMaxRetries
                           THEN /\ loc' = [loc EXCEPT ![p].att = loc[p].att + 1]
                                /\ UNCHANGED <<pc, res, errSeen, lockDir, raceVars>>
                           ELSE /\ RollbackLock(p)
                                /\ Return(p, "errAlloc")
    /\ UNCHANGED <<tmpDirs, envFiles, bound, envs, nCreates, now>>
    /\ UNCHANGED storeVars

\* os.MkdirAll(tmpDir)
MkdirAll(p) ==
    /\ pc[p] = "mkdir"
    /\ tmpDirs' = tmpDirs \cup {TmpPath(loc[p].id)}
    /\ pc' = [pc EXCEPT ![p] = "envfile"]
    /\ UNCHANGED <<loc, res, errSeen, lockDir, envFiles, bound, envs, nCreates, now, raceVars>>
    /\ UNCHANGED storeVars

\* an Environment whose port range has one port whatever was asked for
NewEnvironment_OnePort(p) ==
    [ID |-> loc[p].id,
     WorktreePath |-> loc[p].w,
     TempDir |-> TmpPath(loc[p].id),
     Ports |-> PortRange(loc[p].bp, 1),
     LockFile |-> LockName(loc[p].id),
     EnvFile |-> NoPath]

\* the Environment value CreateEnvironment builds before the descriptor exists
NewEnvironment(p) ==
    [ID |-> loc[p].id,
     WorktreePath |-> loc[p].w,
     TempDir |-> TmpPath(loc[p].id),
     Ports |-> PortRange(loc[p].bp, loc[p].n),
     LockFile |-> LockName(loc[p].id),
     EnvFile |-> NoPath]

PortNames == <<"FIRESTORE_PORT", "AUTH_PORT", "API_PORT", "METRICS_PORT", "DEBUG_PORT">>

Min(a, b) == IF a < b THEN a ELSE b

\* the lines createEnvFile writes: for each key the text after KEY=, numbers
\* as %d prints them
EnvFileContent(env) ==
    [ISOLATION_ID |-> env.ID,
     TEMP_DIR |-> env.TempDir,
     PORT_BASE |-> ToString(env.Ports.BasePort),
     PORT_COUNT |-> ToString(env.Ports.Count),
     named |-> [i \in 1..Min(env.Ports.Count, Len(PortNames)) |->
                   <<PortNames[i], ToString(GetPort(env.Ports, i - 1)[1])>>]]

\* createEnvFile succeeds and CreateEnvironment returns the environment
CreateEnvFile(p) ==
    /\ pc[p] = "envfile"
    /\ LET env == NewEnvironment(p)
           envFilePath == EnvFilePath(env.WorktreePath)
       IN  /\ envFiles' = With(envFiles, envFilePath, EnvFileContent(env))
           /\ envs' = envs \cup {[env |-> [env EXCEPT !.EnvFile = envFilePath],
                                    owner |-> p, cleaned |-> FALSE,
                                    boundAtAlloc |-> loc[p].snap]}
    /\ Return(p, "ok")
    /\ UNCHANGED <<lockDir, tmpDirs, bound, nCreates, now, raceVars>>
    /\ UNCHANGED storeVars

(***************************************************************************)
(* EnvironmentManager.Cleanup                                              *)
(***************************************************************************)
\* the lock, temp directory and descriptor of env exist and the descriptor
\* records env
Provisioned(env) ==
    /\ env.LockFile \in DOMAIN lockDir
    /\ env.TempDir \in tmpDirs
    /\ env.EnvFile \in DOMAIN envFiles
    /\ envFiles[env.EnvFile].ISOLATION_ID = env.ID
    /\ envFiles[env.EnvFile].PORT_BASE = ToString(env.Ports.BasePort)
    /\ envFiles[env.EnvFile].PORT_COUNT = ToString(env.Ports.Count)

\* Cleanup(env) is entered
EnterCleanup(p, env) ==
    /\ pc[p] = "idle"
    /\ loc' = [loc EXCEPT ![p] = [NoLoc EXCEPT !.env = env, !.caller = "cleanup"]]
    /\ pc' = [pc EXCEPT ![p] = "rmtmp"]
    /\ UNCHANGED <<res, errSeen, fsVars, bound, envs, nCreates, now, raceVars>>
    /\ UNCHANGED storeVars

\* the caller that was returned an environment calls Cleanup on its handle
BeginCleanup(p) ==
    \E h \in envs :
        /\ h.owner = p
        /\ ~h.cleaned
        /\ EnterCleanup(p, h.env)

\* the caller calls Cleanup once more on a handle it has cleaned up
BeginCleanupAgain(p) ==
    \E h \in envs :
        /\ h.owner = p
        /\ h.cleaned
        /\ EnterCleanup(p, h.env)

\* os.RemoveAll(env.TempDir)
CleanupTempDir(p) ==
    /\ pc[p] = "rmtmp"
    /\ tmpDirs' = tmpDirs \ {loc[p].env.TempDir}
    /\ pc' = [pc EXCEPT ![p] = "rmenv"]
    /\ loc' = [loc EXCEPT ![p].attempted = @ \cup {"tmp"}]
    /\ UNCHANGED <<res, errSeen, lockDir, envFiles, bound, envs, nCreates, now, raceVars>>
    /\ UNCHANGED storeVars

\* os.RemoveAll fails on the temp directory with an error other than not-exist
CleanupTempDirFail(p) ==
    /\ pc[p] = "rmtmp"
    /\ loc[p].env.TempDir \in tmpDirs
    /\ pc' = [pc EXCEPT ![p] = "rmenv"]
    /\ loc' = [loc EXCEPT ![p].errors = Append(@, ErrRemoveTempDir),
                          ![p].attempted = @ \cup {"tmp"},
                          ![p].failed = @ \cup {"tmp"}]
    /\ UNCHANGED <<res, errSeen, fsVars, bound, envs, nCreates, now, raceVars>>
    /\ UNCHANGED storeVars

\* os.Remove(env.EnvFile) unless EnvFile is ""
CleanupEnvFile(p) ==
    /\ pc[p] = "rmenv"
    /\ envFiles' = IF loc[p].env.EnvFile # NoPath
                   THEN Without(envFiles, loc[p].env.EnvFile)
                   ELSE envFiles
    /\ pc' = [pc EXCEPT ![p] = "unlock"]
    /\ loc' = [loc EXCEPT ![p].attempted =
                              IF loc[p].env.EnvFile # NoPath THEN @ \cup {"env"} ELSE @]
    /\ UNCHANGED <<res, errSeen, lockDir, tmpDirs, bound, envs, nCreates, now, raceVars>>
    /\ UNCHANGED storeVars

\* os.Remove fails on the descriptor with an error other than not-exist
CleanupEnvFileFail(p) ==
    /\ pc[p] = "rmenv"
    /\ loc[p].env.EnvFile # NoPath
    /\ loc[p].env.EnvFile \in DOMAIN envFiles
    /\ pc' = [pc EXCEPT ![p] = "unlock"]
    /\ loc' = [loc EXCEPT ![p].errors = Append(@, ErrRemoveEnvFile),
                          ![p].attempted = @ \cup {"env"},
                          ![p].failed = @ \cup {"env"}]
    /\ UNCHANGED <<res, errSeen, fsVars, bound, envs, nCreates, now, raceVars>>
    /\ UNCHANGED storeVars

\* what Cleanup returns once the three steps left errors in the slice; a
\* Cleanup called by CreateEnvironment has its result dropped
CleanupResult(p, errors) ==
    IF loc[p].caller # "cleanup" THEN "errEnvFile"
    ELSE IF Len(errors) > 0 THEN CleanupError(errors)
    ELSE "cleaned"

\* Cleanup returns to a caller that holds the handle
MarkCleaned(p) ==
    envs' = IF loc[p].caller = "cleanup"
            THEN {IF h.env = loc[p].env /\ h.owner = p
                  THEN [h EXCEPT !.cleaned = TRUE] ELSE h : h \in envs}
            ELSE envs

\* ReleaseLock(env.ID), and Cleanup returns
CleanupReleaseLock(p) ==
    /\ pc[p] = "unlock"
    /\ lockDir' = ReleaseLock(loc[p].env.ID)
    /\ RaceReset(loc[p].env.ID)
    /\ MarkCleaned(p)
    /\ Return(p, CleanupResult(p, loc[p].errors))
    /\ UNCHANGED <<tmpDirs, envFiles, bound, nCreates, now>>
    /\ UNCHANGED storeVars

\* os.Remove fails on the lock file with an error other than not-exist, and
\* Cleanup returns
CleanupReleaseLockFail(p) ==
    /\ pc[p] = "unlock"
    /\ IsLocked(loc[p].env.ID)
    /\ MarkCleaned(p)
    /\ Return(p, CleanupResult(p, Append(loc[p].errors, ErrReleaseLock)))
    /\ UNCHANGED <<fsVars, bound, nCreates, now, raceVars>>
    /\ UNCHANGED storeVars

(***************************************************************************)
(* PortRange.GetPort and PortRange.Ports called on ranges built by hand.   *)
(***************************************************************************)
\* the ranges and the indexes of the calls
PortRangeSamples == {PortRange(b, c) : b \in {StartPort, EndPort}, c \in {0, 1, 3}}
IndexSamples == (0 - 1)..3

ErrIndexOutOfRange == "index out of range"

\* pr.GetPort(index) is called
BeginGetPort(p) ==
    /\ pc[p] = "idle"
    /\ \E pr \in PortRangeSamples, index \in IndexSamples :
          loc' = [loc EXCEPT ![p] = [NoLoc EXCEPT !.bp = pr.BasePort, !.n = pr.Count,
                                                  !.i = index, !.caller = "GetPort"]]
    /\ pc' = [pc EXCEPT ![p] = "GetPort"]
    /\ UNCHANGED <<res, now, envVars, storeVars>>

\* GetPort returns (port, err)
GetPortReturn(p) ==
    /\ pc[p] = "GetPort"
    /\ LET r == GetPort(PortRange(loc[p].bp, loc[p].n), loc[p].i)
       IN  /\ loc' = [loc EXCEPT ![p] = [NoLoc EXCEPT !.bp = r[1]]]
           /\ res' = [res EXCEPT ![p] = IF r[2] THEN ErrIndexOutOfRange ELSE "nil"]
    /\ pc' = [pc EXCEPT ![p] = "idle"]
    /\ UNCHANGED <<now, envVars, storeVars>>

\* pr.Ports() is called
BeginPorts(p) ==
    /\ pc[p] = "idle"
    /\ \E pr \in PortRangeSamples :
          loc' = [loc EXCEPT ![p] = [NoLoc EXCEPT !.bp = pr.BasePort, !.n = pr.Count,
                                                  !.caller = "Ports"]]
    /\ pc' = [pc EXCEPT ![p] = "Ports"]
    /\ UNCHANGED <<res, now, envVars, storeVars>>

\* Ports returns the slice
PortsReturn(p) ==
    /\ pc[p] = "Ports"
    /\ loc' = [loc EXCEPT ![p] = [NoLoc EXCEPT !.ports = Ports(PortRange(loc[p].bp, loc[p].n))]]
    /\ res' = [res EXCEPT ![p] = "nil"]
    /\ pc' = [pc EXCEPT ![p] = "idle"]
    /\ UNCHANGED <<now, envVars, storeVars>>

(***************************************************************************)
(* IDGenerator.CreateLock and IDGenerator.ReleaseLock called directly.     *)
(***************************************************************************)
\* the ids the callers lock and release
LockIds == {CandidateID(b, r, k) : b \in Bases, r \in Rands, k \in 0..1}

\* CreateLock(isolationID) is called by a generator configured with worktree w
BeginCreateLock(p) ==
    /\ pc[p] = "idle"
    /\ \E id \in LockIds, w \in Worktrees :
          loc' = [loc EXCEPT ![p] = [NoLoc EXCEPT !.id = id, !.w = w,
                                                  !.caller = "CreateLock"]]
    /\ pc' = [pc EXCEPT ![p] = "lock"]
    /\ UNCHANGED <<res, errSeen, fsVars, bound, envs, nCreates, now, raceVars>>
    /\ UNCHANGED storeVars

\* f.WriteString(metadata) into the file CreateLock opened, and CreateLock
\* returns lockFile; once the file was removed the write goes to a file that
\* has no name any more, whatever was created under the name since
CreateLockWriteReturn(p) ==
    /\ pc[p] = "meta"
    /\ loc[p].caller = "CreateLock"
    /\ lockDir' = IF p \in won[loc[p].id] /\ LockName(loc[p].id) \in DOMAIN lockDir
                  THEN [lockDir EXCEPT ![LockName(loc[p].id)] =
                           LockMetadata(osProc[p], now, loc[p].w)]
                  ELSE lockDir
    /\ Return(p, "locked")
    /\ UNCHANGED <<tmpDirs, envFiles, bound, envs, nCreates, now, raceVars>>
    /\ UNCHANGED storeVars

\* ReleaseLock(isolationID) is called
BeginReleaseLock(p) ==
    /\ pc[p] = "idle"
    /\ \E id \in LockIds :
          loc' = [loc EXCEPT ![p] = [NoLoc EXCEPT !.id = id, !.caller = "ReleaseLock"]]
    /\ pc' = [pc EXCEPT ![p] = "release"]
    /\ UNCHANGED <<res, errSeen, fsVars, bound, envs, nCreates, now, raceVars>>
    /\ UNCHANGED storeVars

\* os.Remove(lockFile); a file that does not exist is no error
ReleaseLockRemove(p) ==
    /\ pc[p] = "release"
    /\ lockDir' = ReleaseLock(loc[p].id)
    /\ RaceReset(loc[p].id)
    /\ Return(p, "released")
    /\ UNCHANGED <<tmpDirs, envFiles, bound, envs, nCreates, now>>
    /\ UNCHANGED storeVars

\* os.Remove fails on the lock file with an error other than not-exist
ReleaseLockRemoveFail(p) ==
    /\ pc[p] = "release"
    /\ IsLocked(loc[p].id)
    /\ Return(p, ErrReleaseLock)
    /\ UNCHANGED <<fsVars, bound, envs, nCreates, now, raceVars>>
    /\ UNCHANGED storeVars

(***************************************************************************)
(* EnvironmentManager.Validate                                             *)
(***************************************************************************)
\* what IsLocked(env.ID), os.Stat(env.TempDir) and os.Stat(env.EnvFile) find
Exists(env) ==
    <<IsLocked(env.ID), env.TempDir \in tmpDirs, env.EnvFile \in DOMAIN envFiles>>

\* a port that is in use makes the loop fail
ValidatePorts_InUseFails(ports) ==
    IF \E i \in 0..(ports.Count - 1) : IsPortInUse(GetPort(ports, i)[1])
    THEN "port in use"
    ELSE "valid"

\* the loop over the ports: GetPort(i), then IsPortInUse(port) and continue
ValidatePorts(ports) ==
    IF \E i \in 0..(ports.Count - 1) : GetPort(ports, i)[2]
    THEN "invalid port index"
    ELSE "valid"

\* os.IsNotExist(err) after os.Stat(env.TempDir)
TempDirMissing(env) == env.TempDir \notin tmpDirs

\* Validate run from the current state with nothing in between its checks
ValidateNow(env) ==
    IF ~IsLocked(env.ID) THEN ErrLockMissing
    ELSE IF TempDirMissing(env) THEN ErrTempDirMissing
    ELSE IF env.EnvFile \notin DOMAIN envFiles THEN ErrEnvFileMissing
    ELSE ValidatePorts(env.Ports)

\* the caller calls Validate on a handle it was returned
BeginValidate(p) ==
    /\ pc[p] = "idle"
    /\ \E h \in envs :
          /\ h.owner = p
          /\ loc' = [loc EXCEPT ![p] = [NoLoc EXCEPT !.env = h.env, !.caller = "validate",
                                                      !.seen = Exists(h.env)]]
    /\ pc' = [pc EXCEPT ![p] = "vLock"]
    /\ UNCHANGED <<res, errSeen, fsVars, bound, envs, nCreates, now, raceVars>>
    /\ UNCHANGED storeVars

\* the check of p finds the filesystem as the call found it when it began
StillStable(p) == loc[p].stable /\ Exists(loc[p].env) = loc[p].seen

\* if !em.idGen.IsLocked(env.ID)
ValidateLock(p) ==
    /\ pc[p] = "vLock"
    /\ IF ~IsLocked(loc[p].env.ID)
       THEN Return(p, ErrLockMissing)
       ELSE /\ pc' = [pc EXCEPT ![p] = "vTmp"]
            /\ loc' = [loc EXCEPT ![p].stable = StillStable(p)]
            /\ UNCHANGED <<res, errSeen>>
    /\ UNCHANGED <<fsVars, bound, envs, nCreates, now, raceVars>>
    /\ UNCHANGED storeVars

\* os.Stat(env.TempDir)
ValidateTempDir(p) ==
    /\ pc[p] = "vTmp"
    /\ IF TempDirMissing(loc[p].env)
       THEN Return(p, ErrTempDirMissing)
       ELSE /\ pc' = [pc EXCEPT ![p] = "vEnv"]
            /\ loc' = [loc EXCEPT ![p].stable = StillStable(p)]
            /\ UNCHANGED <<res, errSeen>>
    /\ UNCHANGED <<fsVars, bound, envs, nCreates, now, raceVars>>
    /\ UNCHANGED storeVars

\* os.Stat(env.EnvFile), the loop over the ports, and Validate returns
ValidateEnvFile(p) ==
    /\ pc[p] = "vEnv"
    /\ IF loc[p].env.EnvFile \notin DOMAIN envFiles
       THEN Return(p, ErrEnvFileMissing)
       ELSE Return(p, ValidatePorts(loc[p].env.Ports))
    /\ UNCHANGED <<fsVars, bound, envs, nCreates, now, raceVars>>
    /\ UNCHANGED storeVars

(***************************************************************************)
(* Resources of an environment removed outside Cleanup.                    *)
(***************************************************************************)
\* os.RemoveAll(env.TempDir), os.Remove(env.EnvFile) or ReleaseLock(env.ID)
\* called on a handle directly
RemoveByHand ==
    /\ \E h \in envs, what \in {"tmp", "env", "lock"} :
          /\ what = "tmp" =>
                 /\ h.env.TempDir \in tmpDirs
                 /\ tmpDirs' = tmpDirs \ {h.env.TempDir}
                 /\ UNCHANGED <<lockDir, envFiles, raceVars>>
          /\ what = "env" =>
                 /\ h.env.EnvFile \in DOMAIN envFiles
                 /\ envFiles' = Without(envFiles, h.env.EnvFile)
                 /\ UNCHANGED <<lockDir, tmpDirs, raceVars>>
          /\ what = "lock" =>
                 /\ IsLocked(h.env.ID)
                 /\ lockDir' = ReleaseLock(h.env.ID)
                 /\ RaceReset(h.env.ID)
                 /\ UNCHANGED <<tmpDirs, envFiles>>
    /\ UNCHANGED <<pc, loc, res, now, bound, envs, nCreates, errSeen>>
    /\ UNCHANGED storeVars

(***************************************************************************)
(* The services of an environment bind and release its ports.              *)
(***************************************************************************)
StartServices ==
    /\ \E h \in envs :
          /\ ~h.cleaned
          /\ PortSet(h.env.Ports) \cap bound = {}
          /\ bound' = bound \cup PortSet(h.env.Ports)
    /\ UNCHANGED <<pc, loc, res, errSeen, fsVars, envs, nCreates, now, raceVars>>
    /\ UNCHANGED storeVars

StopServices ==
    /\ \E h \in envs :
          /\ PortSet(h.env.Ports) \subseteq bound
          /\ bound' = bound \ PortSet(h.env.Ports)
    /\ UNCHANGED <<pc, loc, res, errSeen, fsVars, envs, nCreates, now, raceVars>>
    /\ UNCHANGED storeVars

(***************************************************************************)
(* Failures of the filesystem inside CreateEnvironment.                    *)
(***************************************************************************)
\* f.WriteString fails: CreateLock removes the file it created
CreateLockWriteFail(p) ==
    /\ pc[p] = "meta"
    /\ lockDir' = Without(lockDir, LockName(loc[p].id))
    /\ RaceReset(loc[p].id)
    /\ Return(p, "errLockWrite")
    /\ UNCHANGED <<tmpDirs, envFiles, bound, envs, nCreates, now>>
    /\ UNCHANGED storeVars

\* os.MkdirAll fails
MkdirAllFail(p) ==
    /\ pc[p] = "mkdir"
    /\ RollbackLock(p)
    /\ Return(p, "errMkdir")
    /\ UNCHANGED <<tmpDirs, envFiles, bound, envs, nCreates, now>>
    /\ UNCHANGED storeVars

\* os.Create fails in createEnvFile: CreateEnvironment calls Cleanup(env),
\* env.EnvFile still ""
CreateEnvFileFail(p) ==
    /\ pc[p] = "envfile"
    /\ loc' = [loc EXCEPT ![p].env = NewEnvironment(p)]
    /\ pc' = [pc EXCEPT ![p] = "rmtmp"]
    /\ UNCHANGED <<res, errSeen, fsVars, bound, envs, nCreates, now, raceVars>>
    /\ UNCHANGED storeVars

(***************************************************************************)
(* State store: the document and the parsers of the reconciler.            *)
(***************************************************************************)
\* the state file does not exist
NoDoc == [kind |-> "missing"]

\* the zero time.Time of a State that was never reconciled
ZeroTime == 0 - 1

\* metadata["Worktree"] of a lock file without a Worktree line
NoWorktree == 0

CurrentVersion == "1.0"

State(environments, reconciledAt) ==
    [version |-> CurrentVersion, environments |-> environments,
     last_reconciled_at |-> reconciledAt]

EmptyState == State(<< >>, ZeroTime)

\* PortsState; a nil and an empty Allocated are both the empty list here
PortsState(base, count, allocated) ==
    [BasePort |-> base, Count |-> count, Allocated |-> allocated]

\* the byte order of two names that differ only in their id
RECURSIVE IdLess(_, _)
IdLess(a, b) ==
    IF a = << >> THEN b # << >>
    ELSE IF b = << >> THEN FALSE
    ELSE IF a[1] # b[1] THEN a[1] < b[1]
    ELSE IdLess(Tail(a), Tail(b))

\* filepath.Glob(lockDir/env-*.lock): the matching names, sorted
RECURSIVE Glob(_)
Glob(names) ==
    IF names = {} THEN << >>
    ELSE LET first == CHOOSE x \in names : \A y \in names \ {x} : IdLess(x[2], y[2])
         IN  <<first>> \o Glob(names \ {first})

\* the text after KEY= of a key that has no line in the file
NoLine == ""

\* parseEnvFile: a value that Atoi refuses leaves the zero of the field
parseEnvFile(envFile) ==
    IF envFile \notin DOMAIN envFiles
    THEN PortsState(0, 0, << >>)
    ELSE LET Field(val) == IF val[2] THEN 0 ELSE val[1]
             Parsed(basePort, count) ==
                 PortsState(basePort, count,
                            IF basePort > 0 /\ count > 0
                            THEN [i \in 1..count |-> basePort + (i - 1)]
                            ELSE << >>)
         IN  CHOOSE ports \in {Parsed(Field(base), Field(cnt)) :
                                  base \in {Atoi(envFiles[envFile].PORT_BASE)},
                                  cnt \in {Atoi(envFiles[envFile].PORT_COUNT)}} : TRUE

\* the metadata map parseLockFile collects from the lines of a lock file
Metadata(content) ==
    IF content \in {EmptyFile, InvalidContent}
    THEN [PID |-> 0, Timestamp |-> 0, Worktree |-> NoWorktree]
    ELSE content

\* a parseLockFile that dates the entry by the time of the scan
parseLockFile_Now(lockFile) ==
    IF lockFile[1] # "env-*.lock" \/ lockDir[lockFile] = Unreadable
    THEN <<NoEnv, TRUE>>
    ELSE LET isolationID == lockFile[2]
             metadata == Metadata(lockDir[lockFile])
             envFile == EnvFilePath(metadata.Worktree)
         IN  <<[ID |-> isolationID,
                PID |-> metadata.PID,
                CreatedAt |-> now,
                WorktreePath |-> metadata.Worktree,
                TempDir |-> TmpPath(isolationID),
                LockFile |-> lockFile,
                EnvFile |-> envFile,
                Ports |-> parseEnvFile(envFile)], FALSE>>

\* parseLockFile: <<entry, err>>
parseLockFile(lockFile) ==
    IF lockFile[1] # "env-*.lock" \/ lockDir[lockFile] = Unreadable
    THEN <<NoEnv, TRUE>>
    ELSE LET isolationID == lockFile[2]
             metadata == Metadata(lockDir[lockFile])
             envFile == EnvFilePath(metadata.Worktree)
         IN  <<[ID |-> isolationID,
                PID |-> metadata.PID,
                CreatedAt |-> metadata.Timestamp,
                WorktreePath |-> metadata.Worktree,
                TempDir |-> TmpPath(isolationID),
                LockFile |-> lockFile,
                EnvFile |-> envFile,
                Ports |-> parseEnvFile(envFile)], FALSE>>

\* the entries Reconcile builds from the lock files it found
RECURSIVE ParseAll(_)
ParseAll(lockFiles) ==
    IF lockFiles = << >> THEN << >>
    ELSE LET parsed == parseLockFile(Head(lockFiles))
         IN  (IF parsed[2] THEN << >> ELSE <<parsed[1]>>) \o ParseAll(Tail(lockFiles))

\* the entry RecordEnvironment builds for env when called by p
EnvState(p, env) ==
    [ID |-> env.ID,
     PID |-> osProc[p],
     CreatedAt |-> now,
     WorktreePath |-> env.WorktreePath,
     TempDir |-> env.TempDir,
     LockFile |-> env.LockFile,
     EnvFile |-> env.EnvFile,
     Ports |-> PortsState(env.Ports.BasePort, env.Ports.Count, Ports(env.Ports))]

\* an upsert that appends whatever the list holds
Upsert_Append(environments, envState) == Append(environments, envState)

\* RecordEnvironment's change of the list: replace in place or append
Upsert(environments, envState) ==
    IF \E i \in 1..Len(environments) : environments[i].ID = envState.ID
    THEN LET i == CHOOSE j \in 1..Len(environments) :
                      /\ environments[j].ID = envState.ID
                      /\ \A k \in 1..(j - 1) : environments[k].ID # envState.ID
         IN  [environments EXCEPT ![i] = envState]
    ELSE Append(environments, envState)

\* a removal that drops the first entry of the id and all that follow it
RemoveID_Truncate(environments, isolationID) ==
    IF \E i \in 1..Len(environments) : environments[i].ID = isolationID
    THEN SubSeq(environments, 1,
                (CHOOSE j \in 1..Len(environments) :
                    /\ environments[j].ID = isolationID
                    /\ \A k \in 1..(j - 1) : environments[k].ID # isolationID) - 1)
    ELSE environments

\* RemoveEnvironment's change of the list
RECURSIVE RemoveID(_, _)
RemoveID(environments, isolationID) ==
    IF environments = << >> THEN << >>
    ELSE (IF Head(environments).ID = isolationID THEN << >> ELSE <<Head(environments)>>)
         \o RemoveID(Tail(environments), isolationID)

\* what readState returns for a file whose content is readable
DecodedState(content) == IF content \in {NoDoc, EmptyFile} THEN EmptyState ELSE content

(***************************************************************************)
(* State store: Manager's operations, one action per step.                 *)
(***************************************************************************)
NoSloc == [op |-> "none", env |-> NoEnv, id |-> NoId, st |-> EmptyState,
           newState |-> EmptyState, dir |-> << >>, files |-> << >>, live |-> {},
           overlapped |-> FALSE]

NoRes == [op |-> "none", err |-> "none", list |-> << >>, count |-> 0, id |-> NoId,
          seen |-> {}, overlapped |-> FALSE]

Mutators == {"record", "remove", "reconcile"}
Readers == {"list", "get"}

\* the callers inside a state-store call
InStore == {q \in Procs : sloc[q].op # "none"}

\* Environment values as the tests of the state package build them by hand
SampleEnv(id) ==
    [ID |-> id,
     WorktreePath |-> 1,
     TempDir |-> TmpPath(id),
     Ports |-> PortRange(StartPort, 2),
     LockFile |-> LockName(id),
     EnvFile |-> EnvFilePath(1)]

SampleEnvs == {SampleEnv(id) : id \in SampleIds}

\* p enters an operation of its Manager: m.mu.Lock()
Enter(p, locals) ==
    /\ pc[p] = "idle"
    /\ nStoreOps < MaxStoreOps
    /\ mu[osProc[p]] = 0
    /\ mu' = [mu EXCEPT ![osProc[p]] = p]
    /\ sloc' = [q \in Procs |->
                  IF q = p THEN [locals EXCEPT !.overlapped = (InStore # {})]
                  ELSE IF q \in InStore THEN [sloc[q] EXCEPT !.overlapped = TRUE]
                  ELSE sloc[q]]
    /\ nStoreOps' = nStoreOps + 1
    /\ UNCHANGED <<loc, res, now, envVars, osVars, stateFile, flockEx, flockSh, sres,
                   committed, opLog>>

\* the deferred unlockFile, f.Close and m.mu.Unlock, and the return of r
Leave_KeepFlock(p, r) ==
    /\ pc' = [pc EXCEPT ![p] = "idle"]
    /\ sloc' = [sloc EXCEPT ![p] = NoSloc]
    /\ sres' = [sres EXCEPT ![p] = [r EXCEPT !.seen = obs[p],
                                              !.overlapped = sloc[p].overlapped]]
    /\ mu' = [mu EXCEPT ![osProc[p]] = 0]
    /\ UNCHANGED <<flockEx, flockSh>>

\* the return of an operation: the deferred unlockFile, f.Close and m.mu.Unlock
Leave(p, r) ==
    /\ pc' = [pc EXCEPT ![p] = "idle"]
    /\ sloc' = [sloc EXCEPT ![p] = NoSloc]
    /\ sres' = [sres EXCEPT ![p] = [r EXCEPT !.seen = obs[p],
                                              !.overlapped = sloc[p].overlapped]]
    /\ mu' = [mu EXCEPT ![osProc[p]] = 0]
    /\ flockEx' = IF flockEx = p THEN 0 ELSE flockEx
    /\ flockSh' = flockSh \ {p}

BeginRecord(p) ==
    /\ \E env \in SampleEnvs : Enter(p, [NoSloc EXCEPT !.op = "record", !.env = env])
    /\ pc' = [pc EXCEPT ![p] = "sOpen"]
    /\ obs' = obs

\* RecordEnvironment for an environment no other call has recorded or records
BeginRecordDistinct(p) ==
    /\ \E env \in SampleEnvs :
          /\ env.ID \notin {sloc[q].env.ID : q \in InStore} \cup {o.id : o \in opLog}
          /\ Enter(p, [NoSloc EXCEPT !.op = "record", !.env = env])
    /\ pc' = [pc EXCEPT ![p] = "sOpen"]
    /\ obs' = obs

\* RemoveEnvironment(id) is entered
EnterRemove(p, id) ==
    /\ Enter(p, [NoSloc EXCEPT !.op = "remove", !.id = id])
    /\ pc' = [pc EXCEPT ![p] = "sOpen"]
    /\ obs' = obs

BeginRemove(p) == \E id \in SampleIds : EnterRemove(p, id)

\* Reconcile calls started so far
nReconciles ==
    Cardinality({o \in opLog : o.op = "reconcile"})
        + Cardinality({q \in InStore : sloc[q].op = "reconcile"})

BeginReconcile(p) ==
    /\ nReconciles < MaxReconciles
    /\ Enter(p, [NoSloc EXCEPT !.op = "reconcile"])
    /\ pc' = [pc EXCEPT ![p] = "rScan"]
    /\ obs' = obs

BeginList(p) ==
    /\ Enter(p, [NoSloc EXCEPT !.op = "list"])
    /\ pc' = [pc EXCEPT ![p] = "lStat"]
    /\ obs' = [obs EXCEPT ![p] = {committed}]

BeginGet(p) ==
    /\ \E id \in SampleIds : Enter(p, [NoSloc EXCEPT !.op = "get", !.id = id])
    /\ pc' = [pc EXCEPT ![p] = "lStat"]
    /\ obs' = [obs EXCEPT ![p] = {committed}]

\* Reconcile: filepath.Glob and parseLockFile of every match
ReconcileScan(p) ==
    /\ pc[p] = "rScan"
    /\ pc' = [pc EXCEPT ![p] = "rOpen"]
    /\ LET lockFiles == Glob({name \in DOMAIN lockDir : name[1] = "env-*.lock"})
       IN  sloc' = [sloc EXCEPT ![p].newState = State(ParseAll(lockFiles), now),
                                ![p].dir = lockDir,
                                ![p].files = envFiles,
                                ![p].live = {h \in envs : ~h.cleaned /\
                                               \A q \in Procs : loc[q].env # h.env}]
    /\ UNCHANGED <<loc, res, now, envVars, osVars, stateFile, flockEx, flockSh, mu, sres,
                   committed, obs, opLog, nStoreOps>>

\* Reconcile: os.OpenFile(statePath, O_RDWR|O_CREATE|O_TRUNC)
ReconcileOpen(p) ==
    /\ pc[p] = "rOpen"
    /\ stateFile' = EmptyFile
    /\ pc' = [pc EXCEPT ![p] = "sFlock"]
    /\ UNCHANGED <<loc, res, now, envVars, osVars, flockEx, flockSh, mu, sloc, sres,
                   committed, obs, opLog, nStoreOps>>

\* RecordEnvironment, RemoveEnvironment: os.OpenFile(statePath, O_RDWR|O_CREATE)
OpenStateFile(p) ==
    /\ pc[p] = "sOpen"
    /\ stateFile' = IF stateFile = NoDoc THEN EmptyFile ELSE stateFile
    /\ pc' = [pc EXCEPT ![p] = "sFlock"]
    /\ UNCHANGED <<loc, res, now, envVars, osVars, flockEx, flockSh, mu, sloc, sres,
                   committed, obs, opLog, nStoreOps>>

\* ListEnvironments: os.Stat(statePath), then os.OpenFile(statePath, O_RDONLY)
ListStat(p) ==
    /\ pc[p] = "lStat"
    /\ IF stateFile = NoDoc
       THEN Leave(p, [NoRes EXCEPT !.op = sloc[p].op, !.id = sloc[p].id,
                                   !.err = IF sloc[p].op = "get" THEN "notfound"
                                           ELSE "none"])
       ELSE /\ pc' = [pc EXCEPT ![p] = "sFlock"]
            /\ UNCHANGED <<flockEx, flockSh, mu, sloc, sres>>
    /\ UNCHANGED <<loc, res, now, envVars, osVars, stateFile, committed, obs, opLog,
                   nStoreOps>>

\* a flock that never blocks
ExclusiveFree_NoLock == TRUE

\* whether flock(LOCK_EX) is granted
ExclusiveFree == flockEx = 0 /\ flockSh = {}

\* whether flock(LOCK_SH) is granted
SharedFree == flockEx = 0

\* lockFile: syscall.Flock(fd, LOCK_EX)
lockFile(p) ==
    /\ pc[p] = "sFlock"
    /\ sloc[p].op \in Mutators
    /\ ExclusiveFree
    /\ flockEx' = p
    /\ pc' = [pc EXCEPT ![p] = IF sloc[p].op = "reconcile" THEN "sWrite" ELSE "sStat"]
    /\ UNCHANGED <<loc, res, now, envVars, osVars, stateFile, flockSh, mu, sloc, sres,
                   committed, obs, opLog, nStoreOps>>

\* ListEnvironments: syscall.Flock(fd, LOCK_SH)
lockFileShared(p) ==
    /\ pc[p] = "sFlock"
    /\ sloc[p].op \in Readers
    /\ SharedFree
    /\ flockSh' = flockSh \cup {p}
    /\ pc' = [pc EXCEPT ![p] = "sStat"]
    /\ UNCHANGED <<loc, res, now, envVars, osVars, stateFile, flockEx, mu, sloc, sres,
                   committed, obs, opLog, nStoreOps>>

\* what a reader returns once readState gave it the list
ReadResult(p, environments) ==
    [NoRes EXCEPT !.op = sloc[p].op, !.id = sloc[p].id, !.list = environments,
                  !.err = IF sloc[p].op = "get" /\
                             \A i \in 1..Len(environments) : environments[i].ID # sloc[p].id
                          THEN "notfound" ELSE "none"]

\* p holds the state read by readState: readers return, writers go on
HaveState(p, state) ==
    IF sloc[p].op \in Readers
    THEN Leave(p, ReadResult(p, state.environments))
    ELSE /\ sloc' = [sloc EXCEPT ![p].st = state]
         /\ pc' = [pc EXCEPT ![p] = "sWrite"]
         /\ UNCHANGED <<flockEx, flockSh, mu, sres>>

\* readState: f.Stat(); a file of size 0 is the empty state
readStateStat(p) ==
    /\ pc[p] = "sStat"
    /\ IF stateFile = EmptyFile
       THEN HaveState(p, EmptyState)
       ELSE /\ pc' = [pc EXCEPT ![p] = "sDecode"]
            /\ UNCHANGED <<flockEx, flockSh, mu, sloc, sres>>
    /\ UNCHANGED <<loc, res, now, envVars, osVars, stateFile, committed, obs, opLog,
                   nStoreOps>>

\* readState: json.NewDecoder(f).Decode(&state); io.EOF on a file of size 0
readStateDecode(p) ==
    /\ pc[p] = "sDecode"
    /\ IF stateFile = EmptyFile
       THEN Leave(p, [NoRes EXCEPT !.op = sloc[p].op, !.id = sloc[p].id,
                                   !.err = "failed to decode state file"])
       ELSE HaveState(p, stateFile)
    /\ UNCHANGED <<loc, res, now, envVars, osVars, stateFile, committed, obs, opLog,
                   nStoreOps>>

\* the State a writer hands to writeState
NewState(p) ==
    CASE sloc[p].op = "record" ->
            [sloc[p].st EXCEPT !.environments = Upsert(@, EnvState(p, sloc[p].env))]
      [] sloc[p].op = "remove" ->
            [sloc[p].st EXCEPT !.environments = RemoveID(@, sloc[p].id)]
      [] OTHER -> sloc[p].newState

\* what the call leaves in the log of finished writers
LogEntry(p, state) ==
    [n |-> Cardinality(opLog) + 1, op |-> sloc[p].op,
     id |-> IF sloc[p].op = "record" THEN sloc[p].env.ID ELSE sloc[p].id,
     entry |-> IF sloc[p].op = "record" THEN EnvState(p, sloc[p].env) ELSE NoEnv,
     newState |-> sloc[p].newState, dir |-> sloc[p].dir, files |-> sloc[p].files,
     overlapped |-> sloc[p].overlapped]

\* writeState: Truncate(0), Seek(0, 0), Encode(state), Sync; then the return
writeState(p) ==
    /\ pc[p] = "sWrite"
    /\ LET state == NewState(p)
       IN  /\ stateFile' = state
           /\ committed' = state.environments
           /\ obs' = [q \in Procs |-> IF q \in InStore /\ sloc[q].op \in Readers
                                      THEN obs[q] \cup {state.environments} ELSE obs[q]]
           /\ opLog' = opLog \cup {LogEntry(p, state)}
           /\ Leave(p, [NoRes EXCEPT !.op = sloc[p].op,
                                     !.id = LogEntry(p, state).id,
                                     !.count = Len(state.environments)])
    /\ UNCHANGED <<loc, res, now, envVars, osVars, nStoreOps>>

(***************************************************************************)
(* Processes and the status of an environment.                             *)
(***************************************************************************)
\* a pid no caller runs under: its process exited before the callers began
ExitedPid == 3

Pids == Procs \cup {ExitedPid}

\* process.Signal(syscall.Signal(0)): nil for a process the caller may signal,
\* EPERM for a running process of another user, ESRCH when no process has pid
Signal0(pid) ==
    IF pid \notin Pids THEN "ESRCH"
    ELSE CASE procTable[pid] = "running" -> "nil"
           [] procTable[pid] = "foreign" -> "EPERM"
           [] OTHER -> "ESRCH"

IsProcessRunning(pid) ==
    IF pid <= 0 THEN FALSE ELSE Signal0(pid) = "nil"

StatusActive == "active"
StatusStale == "stale"

GetEnvironmentStatus(env) ==
    IF IsProcessRunning(env.PID) THEN StatusActive ELSE StatusStale

\* the process of caller p exits
ProcessExit(p) ==
    /\ procTable[osProc[p]] = "running"
    /\ cli[p].phase = "none"
    /\ procTable' = [procTable EXCEPT ![osProc[p]] = "exited"]
    /\ UNCHANGED <<pc, loc, res, now, envVars, osProc, cli, stateFile, flockEx, flockSh, mu,
                   sloc, sres, committed, obs, opLog, nStoreOps>>

\* the OS gives the pid of an exited process to a process of another user
PidReuse ==
    /\ \E pid \in Pids :
          /\ procTable[pid] = "exited"
          /\ procTable' = [procTable EXCEPT ![pid] = "foreign"]
    /\ UNCHANGED <<pc, loc, res, now, envVars, osProc, cli, stateFile, flockEx, flockSh, mu,
                   sloc, sres, committed, obs, opLog, nStoreOps>>

\* a second passes
Tick ==
    /\ now < MaxTime
    /\ now' = now + 1
    /\ UNCHANGED <<pc, loc, res, envVars, storeVars>>

(***************************************************************************)
(* The command cleanup --stale.                                            *)
(***************************************************************************)
\* the values of --older-than: not given, or a duration
OlderThanFlags == {"", "1s"}

\* time.ParseDuration
ParseDuration(flag) == IF flag = "1s" THEN 1 ELSE 0

\* stale0 is history: what the lock files held, when the command began, that
\* recorded the pid of a process that had exited
NoCli == [phase |-> "none", cleanupOlderThan |-> "", toCleanup |-> << >>,
          cleaned |-> 0, failed |-> 0, out |-> "none", stale0 |-> {}]

\* the errors cleanupStaleEnvironments returns
StaleErrors == {"failed to reconcile state", "failed to list environments"}

\* the environment cleanupStaleEnvironments hands to Cleanup
IsoEnv(env) ==
    [ID |-> env.ID,
     WorktreePath |-> env.WorktreePath,
     TempDir |-> env.TempDir,
     Ports |-> PortRange(env.Ports.BasePort, env.Ports.Count),
     LockFile |-> env.LockFile,
     EnvFile |-> env.EnvFile]

\* the filter: with --older-than the old environments, else the stale ones
ToCleanup(flag, env) ==
    LET status == GetEnvironmentStatus(env)
        isStale == status = StatusStale
        olderThan == ParseDuration(flag)
        isOld == IF olderThan > 0 THEN now - env.CreatedAt > olderThan ELSE FALSE
    IN  IF flag # "" THEN isOld ELSE isStale

\* the command ends
StaleDone(p, out) ==
    cli' = [cli EXCEPT ![p].phase = "done", ![p].out = out, ![p].toCleanup = << >>]

\* pid is not the pid of a running process
NotRunning(pid) == pid \notin Pids \/ procTable[pid] = "exited"

\* what the lock files hold that record the pid of a process that has exited
StaleLocks ==
    {parseLockFile(name)[1] : name \in {n \in DOMAIN lockDir :
        /\ ~parseLockFile(n)[2]
        /\ parseLockFile(n)[1].PID > 0
        /\ NotRunning(parseLockFile(n)[1].PID)}}

\* cleanup --stale [--older-than d] is started
BeginStaleRun(p) ==
    /\ pc[p] = "idle"
    /\ cli[p].phase = "none"
    /\ procTable[osProc[p]] = "running"
    /\ \E flag \in OlderThanFlags :
          cli' = [cli EXCEPT ![p] = [NoCli EXCEPT !.phase = "reconcile",
                                                  !.cleanupOlderThan = flag,
                                                  !.stale0 = StaleLocks]]
    /\ UNCHANGED <<pc, loc, res, now, envVars, osProc, procTable, stateFile, flockEx, flockSh,
                   mu, sloc, sres, committed, obs, opLog, nStoreOps>>

\* stateMgr.Reconcile(lockDir)
StaleReconcile(p) ==
    /\ cli[p].phase = "reconcile"
    /\ sres[p].op = "none"
    /\ BeginReconcile(p)

\* Reconcile has returned
StaleAfterReconcile(p) ==
    /\ cli[p].phase = "reconcile"
    /\ pc[p] = "idle"
    /\ sres[p].op = "reconcile"
    /\ IF sres[p].err # "none"
       THEN StaleDone(p, "failed to reconcile state")
       ELSE cli' = [cli EXCEPT ![p].phase = "list"]
    /\ sres' = [sres EXCEPT ![p] = NoRes]
    /\ UNCHANGED <<pc, loc, res, now, envVars, osProc, procTable, stateFile, flockEx, flockSh,
                   mu, sloc, committed, obs, opLog, nStoreOps>>

\* stateMgr.ListEnvironments()
StaleList(p) ==
    /\ cli[p].phase = "list"
    /\ sres[p].op = "none"
    /\ BeginList(p)

\* ListEnvironments has returned: the filter over the list
StaleFilter(p) ==
    /\ cli[p].phase = "list"
    /\ pc[p] = "idle"
    /\ sres[p].op = "list"
    /\ LET envsListed == sres[p].list
           toCleanup == SelectSeq(envsListed,
                                  LAMBDA env : ToCleanup(cli[p].cleanupOlderThan, env))
       IN  IF sres[p].err # "none" THEN StaleDone(p, "failed to list environments")
           ELSE IF Len(envsListed) = 0 THEN StaleDone(p, "No environments to cleanup")
           ELSE IF Len(toCleanup) = 0 THEN StaleDone(p, "No stale environments to cleanup")
           ELSE cli' = [cli EXCEPT ![p].phase = "cleanup", ![p].toCleanup = toCleanup]
    /\ sres' = [sres EXCEPT ![p] = NoRes]
    /\ UNCHANGED <<pc, loc, res, now, envVars, osProc, procTable, stateFile, flockEx, flockSh,
                   mu, sloc, committed, obs, opLog, nStoreOps>>

\* manager.Cleanup(isoEnv) for the next environment of toCleanup
StaleCleanup(p) ==
    /\ cli[p].phase = "cleanup"
    /\ res[p] = "none"
    /\ EnterCleanup(p, IsoEnv(Head(cli[p].toCleanup)))

\* Cleanup has returned
StaleAfterCleanup(p) ==
    /\ cli[p].phase = "cleanup"
    /\ pc[p] = "idle"
    /\ res[p] # "none"
    /\ IF res[p] = "cleaned"
       THEN cli' = [cli EXCEPT ![p].phase = "remove", ![p].cleaned = @ + 1]
       ELSE IF Len(cli[p].toCleanup) > 1
       THEN cli' = [cli EXCEPT ![p].failed = @ + 1, ![p].toCleanup = Tail(@)]
       ELSE cli' = [cli EXCEPT ![p].failed = @ + 1, ![p].toCleanup = << >>,
                               ![p].phase = "done", ![p].out = "ok"]
    /\ res' = [res EXCEPT ![p] = "none"]
    /\ UNCHANGED <<pc, loc, now, envVars, osProc, procTable, stateFile, flockEx, flockSh,
                   mu, sloc, sres, committed, obs, opLog, nStoreOps>>

\* stateMgr.RemoveEnvironment(env.ID)
StaleRemove(p) ==
    /\ cli[p].phase = "remove"
    /\ sres[p].op = "none"
    /\ EnterRemove(p, Head(cli[p].toCleanup).ID)

\* RemoveEnvironment has returned, its error dropped
StaleAfterRemove(p) ==
    /\ cli[p].phase = "remove"
    /\ pc[p] = "idle"
    /\ sres[p].op = "remove"
    /\ IF Len(cli[p].toCleanup) > 1
       THEN cli' = [cli EXCEPT ![p].phase = "cleanup", ![p].toCleanup = Tail(@)]
       ELSE cli' = [cli EXCEPT ![p].phase = "done", ![p].out = "ok", ![p].toCleanup = << >>]
    /\ sres' = [sres EXCEPT ![p] = NoRes]
    /\ UNCHANGED <<pc, loc, res, now, envVars, osProc, procTable, stateFile, flockEx, flockSh,
                   mu, sloc, committed, obs, opLog, nStoreOps>>

(***************************************************************************)
(* Allocator.AllocateRange and Allocator.AllocateSpecific called directly. *)
(***************************************************************************)
\* portsNeeded of the AllocateRange calls
RangeCounts == {0 - 1, 0, 2, PortSpan}

\* the port lists of the AllocateSpecific calls
SpecificPorts ==
    {<< >>, <<StartPort>>, <<StartPort, StartPort + 1>>, <<StartPort + 1, StartPort>>,
     <<StartPort, StartPort>>}

\* the ports on which programs other than the allocator listen
OtherPorts == {StartPort, StartPort + 1}

ErrPortsNeeded == "portsNeeded must be positive"
ErrInsufficientRange == "insufficient port range"
ErrUnableToAllocate == "unable to allocate consecutive ports"

\* fmt's %v of a slice of ints
RECURSIVE JoinPorts(_)
JoinPorts(ports) ==
    IF ports = << >> THEN ""
    ELSE IF Len(ports) = 1 THEN ToString(ports[1])
    ELSE ToString(ports[1]) \o " " \o JoinPorts(Tail(ports))

\* only the first unavailable port is reported
ErrPortsUnavailable_FirstOnly(unavailable) ==
    "ports unavailable: [" \o ToString(unavailable[1]) \o "]"

\* fmt.Errorf("ports unavailable: %v", unavailable)
ErrPortsUnavailable(unavailable) == "ports unavailable: [" \o JoinPorts(unavailable) \o "]"

\* what an allocator call leaves alone
allocFrame == <<now, fsVars, envs, nCreates, errSeen, raceVars, storeVars>>

\* the allocator call of p returns (basePort, r); an AllocateSpecific call
\* returns r alone
AllocReturn(p, r, basePort) ==
    /\ pc' = [pc EXCEPT ![p] = "idle"]
    /\ loc' = [loc EXCEPT ![p] = [NoLoc EXCEPT !.bp = basePort]]
    /\ res' = [res EXCEPT ![p] = r]

\* a check that lets a count of zero through
InvalidPortsNeeded_NegativeOnly(portsNeeded) == portsNeeded < 0

\* if portsNeeded <= 0
InvalidPortsNeeded(portsNeeded) == portsNeeded <= 0

\* AllocateRange(portsNeeded) is called
BeginAllocateRange(p) ==
    /\ pc[p] = "idle"
    /\ \E portsNeeded \in RangeCounts :
          loc' = [loc EXCEPT ![p] = [NoLoc EXCEPT !.n = portsNeeded,
                                                  !.caller = "AllocateRange"]]
    /\ pc' = [pc EXCEPT ![p] = "AllocateRange"]
    /\ UNCHANGED <<res, bound>>
    /\ UNCHANGED allocFrame

\* a loop that gives up one attempt early
MayAttempt_OneLess(attempt) == attempt < MaxRetries - 1

\* attempt < a.config.MaxRetries
MayAttempt(attempt) == attempt < MaxRetries

\* the head of the loop of AllocateRange, `attempt` attempts behind it: the
\* next attempt draws its offset and arePortsAvailable begins, or the call
\* gives up
AllocateRangeLoop(p, attempt) ==
    LET portsNeeded == loc[p].n
        portRange == EndPort - StartPort - portsNeeded
    IN  IF MayAttempt(attempt)
        THEN \E offset \in 0..(portRange - 1) :
                LET basePort == StartPort + offset
                IN  IF 0 < portsNeeded
                    THEN /\ loc' = [loc EXCEPT ![p].att = attempt, ![p].bp = basePort,
                                               ![p].i = 0, ![p].listener = 0,
                                               ![p].probes = << >>]
                         /\ pc' = [pc EXCEPT ![p] = "listen"]
                         /\ res' = res
                    ELSE AllocReturn(p, "ok", basePort)
        ELSE AllocReturn(p, ErrUnableToAllocate, 0)

\* the checks of AllocateRange before its loop, and the first pass of the loop
AllocateRangeEnter(p) ==
    /\ pc[p] = "AllocateRange"
    /\ LET portsNeeded == loc[p].n
           portRange == EndPort - StartPort - portsNeeded
       IN  IF InvalidPortsNeeded(portsNeeded) THEN AllocReturn(p, ErrPortsNeeded, 0)
           ELSE IF portRange <= 0 THEN AllocReturn(p, ErrInsufficientRange, 0)
           ELSE AllocateRangeLoop(p, 0)
    /\ UNCHANGED bound
    /\ UNCHANGED allocFrame

\* AllocateRange: isPortAvailable has returned for basePort + i
AllocateRangeProbed(p, port, available) ==
    IF ~available THEN AllocateRangeLoop(p, loc[p].att + 1)
    ELSE IF loc[p].i + 1 < loc[p].n
    THEN /\ loc' = [loc EXCEPT ![p].i = @ + 1, ![p].listener = 0,
                               ![p].probes = Append(@, <<port, TRUE>>)]
         /\ pc' = [pc EXCEPT ![p] = "listen"]
         /\ res' = res
    ELSE AllocReturn(p, "ok", loc[p].bp)

\* AllocateSpecific: isPortAvailable has returned for the port at index i,
\* and after the last port the call returns
AllocateSpecificProbed(p, port, available) ==
    LET unavailable == IF available THEN loc[p].unavailable
                       ELSE Append(loc[p].unavailable, port)
    IN  IF loc[p].i + 1 < Len(loc[p].ports)
        THEN /\ loc' = [loc EXCEPT ![p].i = @ + 1, ![p].listener = 0,
                                   ![p].unavailable = unavailable,
                                   ![p].probes = Append(@, <<port, available>>)]
             /\ pc' = [pc EXCEPT ![p] = "listen"]
             /\ res' = res
        ELSE AllocReturn(p, IF Len(unavailable) > 0 THEN ErrPortsUnavailable(unavailable)
                            ELSE "ok", 0)

\* AllocateSpecific(ports...) is called
BeginAllocateSpecific(p) ==
    /\ pc[p] = "idle"
    /\ \E ports \in SpecificPorts :
          IF Len(ports) > 0
          THEN /\ loc' = [loc EXCEPT ![p] = [NoLoc EXCEPT !.ports = ports,
                                                          !.caller = "AllocateSpecific"]]
               /\ pc' = [pc EXCEPT ![p] = "listen"]
               /\ res' = res
          ELSE AllocReturn(p, "ok", 0)
    /\ UNCHANGED bound
    /\ UNCHANGED allocFrame

\* the port the call of p hands to isPortAvailable
ProbePort(p) ==
    IF loc[p].caller = "AllocateRange" THEN loc[p].bp + loc[p].i
    ELSE loc[p].ports[loc[p].i + 1]

Probed(p, port, available) ==
    IF loc[p].caller = "AllocateRange" THEN AllocateRangeProbed(p, port, available)
    ELSE AllocateSpecificProbed(p, port, available)

\* isPortAvailable: net.Listen("tcp", addr); on an error it returns false
isPortAvailableListen(p) ==
    /\ pc[p] = "listen"
    /\ LET port == ProbePort(p)
       IN  IF isPortAvailable(port)
           THEN /\ bound' = bound \cup {port}
                /\ loc' = [loc EXCEPT ![p].listener = port]
                /\ pc' = [pc EXCEPT ![p] = "close"]
                /\ res' = res
           ELSE /\ bound' = bound
                /\ Probed(p, port, FALSE)
    /\ UNCHANGED allocFrame

\* a Close that leaves the port bound
CloseListener_Leak(port) == bound

\* listener.Close()
CloseListener(port) == bound \ {port}

\* isPortAvailable: listener.Close(), and it returns true
isPortAvailableClose(p) ==
    /\ pc[p] = "close"
    /\ bound' = CloseListener(loc[p].listener)
    /\ Probed(p, loc[p].listener, TRUE)
    /\ UNCHANGED allocFrame

\* the ports the probes in progress hold
ProbeListeners == {loc[q].listener : q \in Procs} \ {0}

\* a program other than the allocator listens on a port
OtherListen ==
    /\ \E port \in OtherPorts \ bound : bound' = bound \cup {port}
    /\ UNCHANGED <<pc, loc, res>>
    /\ UNCHANGED allocFrame

\* and closes its listener
OtherClose ==
    /\ \E port \in bound \ ProbeListeners : bound' = bound \ {port}
    /\ UNCHANGED <<pc, loc, res>>
    /\ UNCHANGED allocFrame

InitStore ==
    /\ stateFile = NoDoc
    /\ flockEx = 0
    /\ flockSh = {}
    /\ mu = [m \in Procs |-> 0]
    /\ sloc = [p \in Procs |-> NoSloc]
    /\ sres = [p \in Procs |-> NoRes]
    /\ committed = << >>
    /\ obs = [p \in Procs |-> {}]
    /\ opLog = {}
    /\ nStoreOps = 0

(***************************************************************************)
(* Initial states.                                                         *)
(***************************************************************************)
InitBookkeeping ==
    /\ bound = {}
    /\ envs = {}
    /\ nCreates = 0
    /\ now = 0
    /\ won = [id \in AllIds |-> {}]
    /\ lost = [id \in AllIds |-> {}]
    /\ racers = [id \in AllIds |-> {}]
    /\ errSeen = FALSE

\* every caller idle, no environment returned yet, no state-store call made yet
InitCallers ==
    /\ pc = [p \in Procs |-> "idle"]
    /\ loc = [p \in Procs |-> NoLoc]
    /\ res = [p \in Procs |-> "none"]
    /\ cli = [p \in Procs |-> NoCli]
    /\ InitBookkeeping
    /\ InitStore

\* the processes of the callers run, the pid of ExitedPid is free
InitProcTable == procTable = [pid \in Pids |-> IF pid = ExitedPid THEN "exited" ELSE "running"]

\* a fresh machine: nothing on disk, every caller its own OS process
Init ==
    /\ InitCallers
    /\ InitProcTable
    /\ osProc = [p \in Procs |-> p]
    /\ lockDir = << >>
    /\ tmpDirs = {}
    /\ envFiles = << >>


\* the environment an earlier run of the tool left behind
SeedEnv == [SampleEnv(<<1>>) EXCEPT !.Ports = PortRange(StartPort + 1, 2)]

\* a machine on which one environment was created earlier; the callers are
\* goroutines of one process or separate processes
InitSeeded ==
    /\ InitCallers
    /\ InitProcTable
    /\ osProc \in {[p \in Procs |-> p], [p \in Procs |-> 1]}
    /\ lockDir = (SeedEnv.LockFile :> LockMetadata(1, 0, SeedEnv.WorktreePath))
    /\ tmpDirs = {SeedEnv.TempDir}
    /\ envFiles = (SeedEnv.EnvFile :> EnvFileContent(SeedEnv))

\* the text after PORT_BASE= and after PORT_COUNT= in descriptors that were
\* edited by hand or written in part
HandWrittenBases == {NoLine, "invalid", ToString(SeedEnv.Ports.BasePort)}
HandWrittenCounts == {NoLine, "notanumber", "-1", ToString(SeedEnv.Ports.Count)}

HandWrittenDescriptors ==
    {[EnvFileContent(SeedEnv) EXCEPT !.PORT_BASE = base, !.PORT_COUNT = count] :
        base \in HandWrittenBases, count \in HandWrittenCounts}

\* a machine with the lock file of one environment whose descriptor is
\* missing or is one of the hand-written descriptors
InitHandWritten ==
    /\ InitCallers
    /\ InitProcTable
    /\ osProc = [p \in Procs |-> p]
    /\ lockDir = (SeedEnv.LockFile :> LockMetadata(1, 0, SeedEnv.WorktreePath))
    /\ tmpDirs = {SeedEnv.TempDir}
    /\ envFiles \in {<< >>} \cup {(SeedEnv.EnvFile :> d) : d \in HandWrittenDescriptors}

\* RecordEnvironment(env) for an environment as created now or as an earlier
\* run created it under the same id
BeginRecordAgain(p) ==
    /\ \E env \in SampleEnvs \cup {SeedEnv} :
          Enter(p, [NoSloc EXCEPT !.op = "record", !.env = env])
    /\ pc' = [pc EXCEPT ![p] = "sOpen"]
    /\ obs' = obs

\* the list command without --reconcile calls ListEnvironments; the
\* environments that create commands have returned and no one has cleaned up
\* are noted for the comparison with what it prints
BeginListCommand(p) ==
    /\ Enter(p, [NoSloc EXCEPT !.op = "list", !.live = {h \in envs : ~h.cleaned}])
    /\ pc' = [pc EXCEPT ![p] = "lStat"]
    /\ obs' = [obs EXCEPT ![p] = {committed}]

\* the id in the name of a file some other program put into the lock directory
ForeignId == <<0>>

\* a file env-<ForeignId>.lock appears that CreateLock did not write and that
\* cannot be read
WriteForeignLockFile ==
    /\ LockName(ForeignId) \notin DOMAIN lockDir
    /\ lockDir' = With(lockDir, LockName(ForeignId), Unreadable)
    /\ UNCHANGED <<pc, loc, res, now, tmpDirs, envFiles, bound, envs, nCreates, errSeen,
                   raceVars>>
    /\ UNCHANGED storeVars

CreateNext ==
    \/ \E p \in Procs : BeginCreate(p)
    \/ \E p \in Procs : GenerateCheck(p)
    \/ \E p \in Procs : CreateLockOpen(p)
    \/ \E p \in Procs : CreateLockWrite(p)
    \/ \E p \in Procs : AllocateAttempt(p)
    \/ \E p \in Procs : MkdirAll(p)
    \/ \E p \in Procs : CreateEnvFile(p)

CleanupNext ==
    \/ \E p \in Procs : BeginCleanup(p)
    \/ \E p \in Procs : CleanupTempDir(p)
    \/ \E p \in Procs : CleanupEnvFile(p)
    \/ \E p \in Procs : CleanupReleaseLock(p)

ServiceNext ==
    \/ StartServices
    \/ StopServices

FaultNext ==
    \/ \E p \in Procs : CreateLockWriteFail(p)
    \/ \E p \in Procs : MkdirAllFail(p)
    \/ \E p \in Procs : CreateEnvFileFail(p)

EnvNext == CreateNext \/ CleanupNext

CleanupFaultNext ==
    \/ \E p \in Procs : CleanupTempDirFail(p)
    \/ \E p \in Procs : CleanupEnvFileFail(p)
    \/ \E p \in Procs : CleanupReleaseLockFail(p)

ValidateNext ==
    \/ \E p \in Procs : BeginValidate(p)
    \/ \E p \in Procs : ValidateLock(p)
    \/ \E p \in Procs : ValidateTempDir(p)
    \/ \E p \in Procs : ValidateEnvFile(p)


\* the steps every state-store call is made of
StoreSteps ==
    \/ \E p \in Procs : OpenStateFile(p)
    \/ \E p \in Procs : lockFile(p)
    \/ \E p \in Procs : readStateStat(p)
    \/ \E p \in Procs : readStateDecode(p)
    \/ \E p \in Procs : writeState(p)

ReconcileSteps ==
    \/ \E p \in Procs : ReconcileScan(p)
    \/ \E p \in Procs : ReconcileOpen(p)

ReadSteps ==
    \/ \E p \in Procs : ListStat(p)
    \/ \E p \in Procs : lockFileShared(p)

StoreNext ==
    \/ \E p \in Procs : BeginRecord(p)
    \/ \E p \in Procs : BeginRemove(p)
    \/ \E p \in Procs : BeginReconcile(p)
    \/ \E p \in Procs : BeginList(p)
    \/ \E p \in Procs : BeginGet(p)
    \/ StoreSteps
    \/ ReconcileSteps
    \/ ReadSteps

RecordNext ==
    \/ \E p \in Procs : BeginRecordDistinct(p)
    \/ StoreSteps

\* the environment manager under concurrent callers, the filesystem healthy
SpecEnv == Init /\ [][EnvNext]_vars

\* concurrent CreateEnvironment calls while the services of the environments
\* returned so far bind and release their ports
SpecPorts == Init /\ [][CreateNext \/ ServiceNext]_vars

\* the same with filesystem failures inside CreateEnvironment
SpecRollback == Init /\ [][EnvNext \/ FaultNext]_vars

\* callers that create and clean up environments while removals can fail
SpecCleanup == Init /\ [][EnvNext \/ CleanupFaultNext]_vars

\* callers that create, validate and clean up environments while the services
\* of the environments bind and release their ports
SpecValidate == Init /\ [][EnvNext \/ ValidateNext \/ ServiceNext]_vars


\* the caller that creates and cleans up environments, and the caller that
\* reconciles meanwhile
Creators == {1}
Reconcilers == {2}

ReconcileEnvNext ==
    \/ \E p \in Creators : BeginCreate(p)
    \/ \E p \in Creators : GenerateCheck(p)
    \/ \E p \in Creators : CreateLockOpen(p)
    \/ \E p \in Creators : CreateLockWrite(p)
    \/ \E p \in Creators : AllocateAttempt(p)
    \/ \E p \in Creators : MkdirAll(p)
    \/ \E p \in Creators : CreateEnvFile(p)
    \/ \E p \in Creators : BeginCleanup(p)
    \/ \E p \in Creators : CleanupTempDir(p)
    \/ \E p \in Creators : CleanupEnvFile(p)
    \/ \E p \in Creators : CleanupReleaseLock(p)
    \/ WriteForeignLockFile
    \/ \E p \in Reconcilers : BeginReconcile(p)
    \/ \E p \in Reconcilers : ReconcileScan(p)
    \/ \E p \in Reconcilers : ReconcileOpen(p)
    \/ \E p \in Reconcilers : lockFile(p)
    \/ \E p \in Reconcilers : writeState(p)

\* time passes between one run of Reconcile and the next
TickBetweenRuns ==
    /\ \E o \in opLog : o.op = "reconcile"
    /\ \A p \in Reconcilers : pc[p] = "idle"
    /\ Tick

\* one caller creates and cleans up environments and the other caller runs
\* Reconcile again and again
RepeatedReconcileNext ==
    \/ \E p \in Creators : BeginCreate(p)
    \/ \E p \in Creators : GenerateCheck(p)
    \/ \E p \in Creators : CreateLockOpen(p)
    \/ \E p \in Creators : CreateLockWrite(p)
    \/ \E p \in Creators : AllocateAttempt(p)
    \/ \E p \in Creators : MkdirAll(p)
    \/ \E p \in Creators : CreateEnvFile(p)
    \/ \E p \in Creators : BeginCleanup(p)
    \/ \E p \in Creators : CleanupTempDir(p)
    \/ \E p \in Creators : CleanupEnvFile(p)
    \/ \E p \in Creators : CleanupReleaseLock(p)
    \/ \E p \in Reconcilers : BeginReconcile(p)
    \/ \E p \in Reconcilers : ReconcileScan(p)
    \/ \E p \in Reconcilers : ReconcileOpen(p)
    \/ \E p \in Reconcilers : lockFile(p)
    \/ \E p \in Reconcilers : writeState(p)
    \/ TickBetweenRuns

\* one user runs create commands and cleans up, the other runs list
\* commands, and reconcile commands now and then
CommandNext ==
    \/ \E p \in Creators : BeginCreate(p)
    \/ \E p \in Creators : GenerateCheck(p)
    \/ \E p \in Creators : CreateLockOpen(p)
    \/ \E p \in Creators : CreateLockWrite(p)
    \/ \E p \in Creators : AllocateAttempt(p)
    \/ \E p \in Creators : MkdirAll(p)
    \/ \E p \in Creators : CreateEnvFile(p)
    \/ \E p \in Creators : BeginCleanup(p)
    \/ \E p \in Creators : CleanupTempDir(p)
    \/ \E p \in Creators : CleanupEnvFile(p)
    \/ \E p \in Creators : CleanupReleaseLock(p)
    \/ \E p \in Reconcilers : BeginListCommand(p)
    \/ \E p \in Reconcilers : ListStat(p)
    \/ \E p \in Reconcilers : lockFileShared(p)
    \/ \E p \in Reconcilers : readStateStat(p)
    \/ \E p \in Reconcilers : readStateDecode(p)
    \/ \E p \in Reconcilers : BeginReconcile(p)
    \/ \E p \in Reconcilers : ReconcileScan(p)
    \/ \E p \in Reconcilers : ReconcileOpen(p)
    \/ \E p \in Reconcilers : lockFile(p)
    \/ \E p \in Reconcilers : writeState(p)

\* one caller that creates environments and cleans up its handles, also more
\* than once, while removals can fail and resources are removed by hand
RepeatNext ==
    \/ \E p \in Creators : BeginCreate(p)
    \/ \E p \in Creators : GenerateCheck(p)
    \/ \E p \in Creators : CreateLockOpen(p)
    \/ \E p \in Creators : CreateLockWrite(p)
    \/ \E p \in Creators : AllocateAttempt(p)
    \/ \E p \in Creators : MkdirAll(p)
    \/ \E p \in Creators : CreateEnvFile(p)
    \/ \E p \in Creators : BeginCleanup(p)
    \/ \E p \in Creators : BeginCleanupAgain(p)
    \/ \E p \in Creators : CleanupTempDir(p)
    \/ \E p \in Creators : CleanupTempDirFail(p)
    \/ \E p \in Creators : CleanupEnvFile(p)
    \/ \E p \in Creators : CleanupEnvFileFail(p)
    \/ \E p \in Creators : CleanupReleaseLock(p)
    \/ \E p \in Creators : CleanupReleaseLockFail(p)
    \/ RemoveByHand

SpecRepeat == Init /\ [][RepeatNext]_vars

\* the process of caller p has not exited
Running(p) == procTable[osProc[p]] = "running"

\* the steps of a cleanup --stale command
StaleRunNext ==
    \/ \E p \in Reconcilers : BeginStaleRun(p)
    \/ \E p \in Reconcilers : StaleReconcile(p)
    \/ \E p \in Reconcilers : ReconcileScan(p)
    \/ \E p \in Reconcilers : ReconcileOpen(p)
    \/ \E p \in Reconcilers : StaleAfterReconcile(p)
    \/ \E p \in Reconcilers : StaleList(p)
    \/ \E p \in Reconcilers : ListStat(p)
    \/ \E p \in Reconcilers : lockFileShared(p)
    \/ \E p \in Reconcilers : StaleFilter(p)
    \/ \E p \in Reconcilers : StaleCleanup(p)
    \/ \E p \in Reconcilers : CleanupTempDir(p)
    \/ \E p \in Reconcilers : CleanupEnvFile(p)
    \/ \E p \in Reconcilers : CleanupReleaseLock(p)
    \/ \E p \in Reconcilers : StaleAfterCleanup(p)
    \/ \E p \in Reconcilers : StaleRemove(p)
    \/ \E p \in Reconcilers : StaleAfterRemove(p)
    \/ \E p \in Reconcilers : OpenStateFile(p)
    \/ \E p \in Reconcilers : lockFile(p)
    \/ \E p \in Reconcilers : readStateStat(p)
    \/ \E p \in Reconcilers : readStateDecode(p)
    \/ \E p \in Reconcilers : writeState(p)

\* a process that creates environments and may exit at any point
CreatorNext ==
    \/ \E p \in Creators : Running(p) /\ BeginCreate(p)
    \/ \E p \in Creators : Running(p) /\ GenerateCheck(p)
    \/ \E p \in Creators : Running(p) /\ CreateLockOpen(p)
    \/ \E p \in Creators : Running(p) /\ CreateLockWrite(p)
    \/ \E p \in Creators : Running(p) /\ AllocateAttempt(p)
    \/ \E p \in Creators : Running(p) /\ MkdirAll(p)
    \/ \E p \in Creators : Running(p) /\ CreateEnvFile(p)
    \/ \E p \in Creators : ProcessExit(p)

\* cleanup --stale in one process while another creates environments and exits
SpecStale == Init /\ [][CreatorNext \/ StaleRunNext]_vars

\* a machine on which the process that created an environment has exited
InitAbandoned ==
    /\ InitCallers
    /\ InitProcTable
    /\ osProc = [p \in Procs |-> p]
    /\ lockDir = (SeedEnv.LockFile :> LockMetadata(ExitedPid, 0, SeedEnv.WorktreePath))
    /\ tmpDirs = {SeedEnv.TempDir}
    /\ envFiles = (SeedEnv.EnvFile :> EnvFileContent(SeedEnv))

\* another process of the tool reconciles
OtherReconcileNext ==
    \/ \E p \in Creators : BeginReconcile(p)
    \/ \E p \in Creators : ReconcileScan(p)
    \/ \E p \in Creators : ReconcileOpen(p)
    \/ \E p \in Creators : lockFile(p)
    \/ \E p \in Creators : writeState(p)

\* cleanup --stale over an abandoned environment while another process of the
\* tool reconciles, time passes and pids are given out again
SpecReclaim ==
    InitAbandoned /\ [][OtherReconcileNext \/ StaleRunNext \/ PidReuse \/ Tick]_vars

\* the calls of the allocator, and the listeners of other programs
AllocateNext ==
    \/ \E p \in Procs : BeginAllocateRange(p)
    \/ \E p \in Procs : AllocateRangeEnter(p)
    \/ \E p \in Procs : BeginAllocateSpecific(p)
    \/ \E p \in Procs : isPortAvailableListen(p)
    \/ \E p \in Procs : isPortAvailableClose(p)
    \/ OtherListen
    \/ OtherClose

\* concurrent AllocateRange and AllocateSpecific calls while other programs
\* bind and release ports of the range
SpecAllocate == Init /\ [][AllocateNext]_vars

\* one caller of AllocateRange, and the listeners of other programs
AllocateRangeNext ==
    \/ \E p \in Creators : BeginAllocateRange(p)
    \/ \E p \in Creators : AllocateRangeEnter(p)
    \/ \E p \in Creators : isPortAvailableListen(p)
    \/ \E p \in Creators : isPortAvailableClose(p)
    \/ OtherListen
    \/ OtherClose

\* a caller inside AllocateRange keeps running: the goroutine is scheduled
\* again and again, its sleep between two attempts ends
AllocateRangeFair ==
    \A p \in Creators :
        WF_vars(AllocateRangeEnter(p) \/ isPortAvailableListen(p) \/ isPortAvailableClose(p))

\* AllocateRange calls of a caller that keeps running, while other programs
\* bind and release ports of the range
SpecAllocateFair == Init /\ [][AllocateRangeNext]_vars /\ AllocateRangeFair

\* what earlier runs of the tool may have left behind: lock files and temp
\* directories under the ids Generate can come to try
LeftoverIds == {CandidateID(b, r, k) : b \in Bases, r \in Rands, k \in 0..(IdMaxRetries - 1)}

\* a machine on which earlier runs left lock files and temp directories
InitLeftover ==
    /\ InitCallers
    /\ InitProcTable
    /\ osProc = [p \in Procs |-> p]
    /\ \E locked \in SUBSET LeftoverIds :
          lockDir = [name \in {LockName(id) : id \in locked} |->
                        LockMetadata(ExitedPid, 0, 1)]
    /\ tmpDirs \in SUBSET {TmpPath(id) : id \in LeftoverIds}
    /\ envFiles = << >>

\* CreateEnvironment and Cleanup calls on a machine with leftovers
SpecGenerate == InitLeftover /\ [][EnvNext]_vars

\* GetPort and Ports on port ranges built by hand
PortRangeNext ==
    \/ \E p \in Procs : BeginGetPort(p)
    \/ \E p \in Procs : GetPortReturn(p)
    \/ \E p \in Procs : BeginPorts(p)
    \/ \E p \in Procs : PortsReturn(p)

SpecPortRange == Init /\ [][PortRangeNext]_vars

\* CreateLock and ReleaseLock calls of concurrent callers on the same ids,
\* while the write of the metadata and the removal can fail
LockNext ==
    \/ \E p \in Procs : BeginCreateLock(p)
    \/ \E p \in Procs : CreateLockOpen(p)
    \/ \E p \in Procs : CreateLockWriteReturn(p)
    \/ \E p \in Procs : CreateLockWriteFail(p)
    \/ \E p \in Procs : BeginReleaseLock(p)
    \/ \E p \in Procs : ReleaseLockRemove(p)
    \/ \E p \in Procs : ReleaseLockRemoveFail(p)

SpecLock == Init /\ [][LockNext]_vars

\* RecordEnvironment, RemoveEnvironment, ListEnvironments and GetEnvironment
\* under concurrent callers
UpsertNext ==
    \/ \E p \in Procs : BeginRecordAgain(p)
    \/ \E p \in Procs : BeginRemove(p)
    \/ \E p \in Procs : BeginList(p)
    \/ \E p \in Procs : BeginGet(p)
    \/ StoreSteps
    \/ ReadSteps

SpecUpsert == InitSeeded /\ [][UpsertNext]_vars

\* every operation of the state store under concurrent callers
SpecStore == InitSeeded /\ [][StoreNext]_vars

\* a caller inside a state-store call keeps running: its goroutine is
\* scheduled again and again, and a flock it waits for is granted once the
\* lock is free
StoreCallStep(p) ==
    \/ OpenStateFile(p)
    \/ lockFile(p)
    \/ readStateStat(p)
    \/ readStateDecode(p)
    \/ writeState(p)
    \/ ReconcileScan(p)
    \/ ReconcileOpen(p)
    \/ ListStat(p)
    \/ lockFileShared(p)

StoreFair == \A p \in Procs : WF_vars(StoreCallStep(p))

\* every operation of the state store under concurrent callers that keep
\* running
SpecStoreFair == InitSeeded /\ [][StoreNext]_vars /\ StoreFair

\* RecordEnvironment and Reconcile calls
RecordReconcileNext ==
    \/ \E p \in Procs : BeginRecord(p)
    \/ \E p \in Procs : BeginReconcile(p)
    \/ StoreSteps
    \/ ReconcileSteps

\* RecordEnvironment and Reconcile on a machine whose descriptor was not
\* written by CreateEnvironment
SpecHandWritten == InitHandWritten /\ [][RecordReconcileNext]_vars

\* concurrent RecordEnvironment calls for different environments
SpecRecord == InitSeeded /\ [][RecordNext]_vars

\* Reconcile while environments are created and cleaned up and a file that is
\* not a lock of the tool lies in the lock directory
SpecReconcile == Init /\ [][ReconcileEnvNext]_vars

\* the create, list and reconcile commands
SpecCommands == Init /\ [][CommandNext]_vars

\* Reconcile run repeatedly while environments come and go
SpecRepeatedReconcile == Init /\ [][RepeatedReconcileNext]_vars

(***************************************************************************)
(* Properties.                                                             *)
(***************************************************************************)
Live == {h \in envs : ~h.cleaned}

Poised(id) == {q \in Procs : pc[q] = "lock" /\ loc[q].id = id}

\* C1: of the callers that stood before CreateLock(x) at once while x was
\* unlocked, at most one has created the lock, and once any of them has
\* returned exactly one has succeeded and every other one that returned failed.
LockRaceOneWinner ==
    \A id \in AllIds :
        /\ Cardinality(won[id]) <= 1
        /\ LET returned == racers[id] \ Poised(id)
           IN  returned # {} =>
                   /\ Cardinality(won[id]) = 1
                   /\ returned \ won[id] \subseteq lost[id]

\* C1 witness: two callers raced for one id, one created the lock, the other failed
LockRaceWitness ==
    \E id \in AllIds :
        /\ Cardinality(racers[id]) >= 2
        /\ Poised(id) = {}
        /\ Cardinality(won[id]) = 1
        /\ lost[id] # {}

\* C2: environments that were returned and are not cleaned up hold their locks
\* and differ pairwise in id, lock file and temp directory.
LiveEnvironmentsDistinct ==
    /\ \A h \in Live : IsLocked(h.env.ID)
    /\ \A h1, h2 \in Live :
          h1 # h2 => /\ h1.env.ID # h2.env.ID
                     /\ h1.env.LockFile # h2.env.LockFile
                     /\ h1.env.TempDir # h2.env.TempDir

\* C2 witness: two environments are live at once, created by different callers
TwoLiveWitness ==
    \E h1, h2 \in Live : h1.owner # h2.owner /\ h1.env.ID # h2.env.ID

Absent(env) ==
    /\ env.LockFile \notin DOMAIN lockDir
    /\ env.TempDir \notin tmpDirs
    /\ env.EnvFile \notin DOMAIN envFiles

AtBoundary == (\A p \in Procs : pc[p] = "idle") /\ ~errSeen

\* C4 as claimed: at an operation boundary every returned environment is
\* provisioned or absent.
ProvisionedOrAbsent ==
    AtBoundary => \A h \in envs : Provisioned(h.env) \/ Absent(h.env)

\* a step of p inside a CreateEnvironment call
CreateStep(p) == loc[p].caller = "create" /\ <<pc[p], loc[p]>> # <<pc'[p], loc'[p]>>

CreatedLock(p) == pc[p] \in {"meta", "alloc", "mkdir", "envfile", "rmtmp", "rmenv", "unlock"}

Document == DecodedState(stateFile)

DocIds == {Document.environments[i].ID : i \in 1..Len(Document.environments)}

\* what a finished writer did to the document
Apply(o, d) ==
    CASE o.op = "record" -> [d EXCEPT !.environments = Upsert(@, o.entry)]
      [] o.op = "remove" -> [d EXCEPT !.environments = RemoveID(@, o.id)]
      [] OTHER -> o.newState

\* the documents the finished writers produce when run one after another
RECURSIVE SerialDocs(_, _)
SerialDocs(ops, d) ==
    IF ops = {} THEN {d}
    ELSE UNION {SerialDocs(ops \ {o}, Apply(o, d)) : o \in ops}

DecodeError == "failed to decode state file"

\* C6: a ListEnvironments or GetEnvironment call that has returned did not fail
\* on a half-written file, and the list it read is one that was completely
\* written: the list at its start or one committed while it ran.
ReadersSeeCommitted ==
    \A p \in Procs :
        sres[p].op \in Readers =>
            /\ sres[p].err # DecodeError
            /\ sres[p].list \in sres[p].seen

\* C7: no Record, Remove or Reconcile call returns an error, and when no call
\* is in progress the document is what the finished calls give in some
\* sequential order.
ReconcileSerialized ==
    /\ \A p \in Procs : sres[p].op \in Mutators => sres[p].err = "none"
    /\ InStore = {} => Document \in SerialDocs(opLog, EmptyState)

\* the second half of C7 alone
FinalDocSerial == InStore = {} => Document \in SerialDocs(opLog, EmptyState)

\* C8: every RecordEnvironment call for a distinct id returns without error
\* and the document holds exactly one entry for each call that has returned.
ConcurrentRecordsKept ==
    /\ \A p \in Procs : sres[p].op = "record" => sres[p].err = "none"
    /\ \A o \in opLog :
          Cardinality({i \in 1..Len(Document.environments) :
                          Document.environments[i].ID = o.id}) = 1

\* C8 witness: two calls that ran at the same time have both returned and the
\* document holds both environments
ConcurrentRecordsWitness ==
    /\ InStore = {}
    /\ Cardinality({o \in opLog : o.overlapped}) >= 2
    /\ DocIds = SampleIds

\* a lock file with the name and the metadata lines CreateLock gives it
WellFormed(dir, name) == name[1] = "env-*.lock" /\ dir[name].kind = "metadata"

\* the step in which the Reconcile call of p writes the document and returns
ReconcileReturns(p) == pc[p] = "sWrite" /\ sloc[p].op = "reconcile" /\ pc'[p] = "idle"

\* the list E holds one entry for every well-formed lock file of dir, built
\* from the name and the content of that file, and no other entry
EntriesMatch(E, dir) ==
    LET W == {name \in DOMAIN dir : WellFormed(dir, name)}
    IN  /\ \A name \in W : Cardinality({i \in 1..Len(E) : E[i].ID = name[2]}) = 1
        /\ \A i \in 1..Len(E) :
              /\ LockName(E[i].ID) \in W
              /\ E[i].PID = dir[LockName(E[i].ID)].PID
              /\ E[i].CreatedAt = dir[LockName(E[i].ID)].Timestamp
              /\ E[i].WorktreePath = dir[LockName(E[i].ID)].Worktree

\* C9: when Reconcile returns count c, the document holds one entry for every
\* well-formed lock file found in the lock directory, with the id of the name
\* and the pid, timestamp and worktree of the content, holds no other entry
\* (none of the entries it held before), and has c entries.
ReconcileMatchesLocks ==
    [][\A p \in Procs :
          ReconcileReturns(p) =>
              /\ sres'[p].err = "none"
              /\ sres'[p].count = Len(stateFile'.environments)
              /\ EntriesMatch(stateFile'.environments, sloc[p].dir)]_vars

\* C10: every entry Reconcile writes for the lock of an environment that was
\* live when the lock directory was scanned carries that environment's ports.
ReconcilePortsOfOwner ==
    [][\A p \in Procs :
          ReconcileReturns(p) =>
              LET E == stateFile'.environments
              IN  \A i \in 1..Len(E) : \A h \in sloc[p].live :
                      h.env.ID = E[i].ID =>
                          E[i].Ports = PortsState(h.env.Ports.BasePort, h.env.Ports.Count,
                                                  Ports(h.env.Ports))]_vars

\* C11: when Reconcile returns, it returns without error, the document holds
\* no entry for a lock file that cannot be read or that has no PID, Timestamp
\* and Worktree lines, and such files are not counted.
ReconcileSkipsUnparsed ==
    [][\A p \in Procs :
          ReconcileReturns(p) =>
              LET dir == sloc[p].dir
                  E == stateFile'.environments
                  bad == {name \in DOMAIN dir : ~WellFormed(dir, name)}
              IN  /\ sres'[p].err = "none"
                  /\ \A name \in bad : \A i \in 1..Len(E) : E[i].ID # name[2]
                  /\ sres'[p].count = Cardinality(DOMAIN dir \ bad)]_vars

\* the step of p with which its Cleanup call returns to a caller holding env
CleanupReturns(p) == pc[p] = "unlock" /\ loc[p].caller = "cleanup" /\ pc'[p] = "idle"

\* the error Cleanup returns from p reports that the release of the lock failed
ReleaseReported(p) == res'[p] = CleanupError(Append(loc[p].errors, ErrReleaseLock))

\* the lock file of env is still there after the returning step of p
LockLeft(p) == LockName(loc[p].env.ID) \in DOMAIN lockDir'

\* C14 as claimed: if the removal of the temp directory or of the descriptor
\* failed with a real error, the lock file is still present when Cleanup returns.
LockKeptOnFailedRemoval ==
    [][\A p \in Procs :
          (CleanupReturns(p) /\ loc[p].failed # {}) =>
              LockName(loc[p].env.ID) \in DOMAIN lockDir']_vars

\* C14: Cleanup touches the lock directory in its last step only, after it
\* attempted the removal of the temp directory and of the descriptor, and
\* whether or not they succeeded the lock file is gone when Cleanup returns
\* unless the release itself failed.
CleanupReleasesLockLast ==
    [][\A p \in Procs :
          /\ (pc[p] \in {"rmtmp", "rmenv"} /\ pc'[p] # pc[p]) => lockDir' = lockDir
          /\ CleanupReturns(p) =>
                 /\ loc[p].attempted = {"tmp", "env"}
                 /\ ReleaseReported(p) \/ ~LockLeft(p)]_vars

FailedRemovalLockGoneWitness ==
    \E h \in envs :
        /\ h.cleaned
        /\ res[h.owner] = CleanupError(<<ErrRemoveTempDir>>)
        /\ h.env.TempDir \in tmpDirs
        /\ ~IsLocked(h.env.ID)

\* the messages of a set of failed steps, in the order of the steps
Messages(failed) ==
    (IF "tmp" \in failed THEN <<ErrRemoveTempDir>> ELSE << >>)
        \o (IF "env" \in failed THEN <<ErrRemoveEnvFile>> ELSE << >>)
        \o (IF "lock" \in failed THEN <<ErrReleaseLock>> ELSE << >>)

\* C15: when Cleanup returns it has attempted the removal of the temp
\* directory, the removal of the descriptor and the release of the lock; it
\* returns an error exactly when one of them failed with a real error, and the
\* error names every step that failed.
CleanupAggregatesErrors ==
    [][\A p \in Procs :
          CleanupReturns(p) =>
              LET failed == loc[p].failed \cup (IF LockLeft(p) THEN {"lock"} ELSE {})
              IN  /\ loc[p].attempted = {"tmp", "env"}
                  /\ (res'[p] = "cleaned") <=> (failed = {})
                  /\ failed # {} =>
                         res'[p] = "cleanup errors: [" \o JoinErrors(Messages(failed)) \o "]"]_vars

AllStepsFailedWitness ==
    \E h \in envs :
        /\ h.cleaned
        /\ res[h.owner] = CleanupError(<<ErrRemoveTempDir, ErrRemoveEnvFile, ErrReleaseLock>>)
        /\ Provisioned(h.env)

\* C16: when Cleanup returns without error, the temp directory, the
\* descriptor file and the lock file of env do not exist, IsLocked(env.ID) is
\* false, and Validate(env) run next returns the error of the missing lock.
CleanupLeavesAbsent ==
    [][\A p \in Procs :
          (CleanupReturns(p) /\ res'[p] = "cleaned") =>
              LET env == loc[p].env
              IN  /\ env.TempDir \notin tmpDirs'
                  /\ env.LockFile \notin DOMAIN lockDir'
                  /\ ~IsLocked(env.ID)'
                  /\ env.EnvFile \notin DOMAIN envFiles'
                  /\ ValidateNow(env)' = ErrLockMissing]_vars

\* what does hold when Cleanup returns without error: a descriptor found at
\* env.EnvFile is that of another environment of the worktree
CleanupLeavesNoneOfItsOwn ==
    [][\A p \in Procs :
          (CleanupReturns(p) /\ res'[p] = "cleaned") =>
              LET env == loc[p].env
              IN  /\ env.TempDir \notin tmpDirs'
                  /\ env.LockFile \notin DOMAIN lockDir'
                  /\ \/ env.EnvFile \notin DOMAIN envFiles'
                     \/ envFiles'[env.EnvFile].ISOLATION_ID # env.ID
                  /\ ValidateNow(env)' = ErrLockMissing]_vars

\* C17: a step of Cleanup that finds its resource already absent changes
\* nothing on the filesystem and adds no error, so that a Cleanup that finds
\* the temp directory, the descriptor and the lock absent returns no error.
CleanupIdempotent ==
    [][\A p \in Procs :
          (loc[p].caller = "cleanup" /\ pc'[p] # pc[p]) =>
              LET env == loc[p].env
              IN  /\ (pc[p] = "rmtmp" /\ env.TempDir \notin tmpDirs) =>
                         /\ fsVars' = fsVars
                         /\ loc'[p].errors = loc[p].errors
                  /\ (pc[p] = "rmenv" /\ env.EnvFile \notin DOMAIN envFiles) =>
                         /\ fsVars' = fsVars
                         /\ loc'[p].errors = loc[p].errors
                  /\ (pc[p] = "unlock" /\ ~IsLocked(env.ID)) =>
                         /\ fsVars' = fsVars
                         /\ loc[p].errors = << >> => res'[p] = "cleaned"]_vars

\* a second Cleanup of a handle has found the temp directory and the
\* descriptor absent and finds the lock absent
SecondCleanupWitness ==
    \E p \in Procs, h \in envs :
        /\ pc[p] = "unlock"
        /\ loc[p].caller = "cleanup"
        /\ h.env = loc[p].env
        /\ h.cleaned
        /\ Absent(h.env)
        /\ loc[p].errors = << >>

ValidateStep(p) == loc[p].caller = "validate" /\ pc'[p] # pc[p]

\* C19: Validate changes no lock file, temp directory or descriptor; over a
\* filesystem that stays as the call found it, it returns the error of the
\* first of lock, temp directory and descriptor that is missing, and no error
\* when none is missing, whatever ports are bound.
ValidateReportsFirstMissing ==
    [][\A p \in Procs :
          ValidateStep(p) =>
              /\ fsVars' = fsVars
              /\ (pc'[p] = "idle" /\ StillStable(p)) =>
                     LET e == Exists(loc[p].env)
                     IN  res'[p] = IF ~e[1] THEN ErrLockMissing
                                   ELSE IF ~e[2] THEN ErrTempDirMissing
                                   ELSE IF ~e[3] THEN ErrEnvFileMissing
                                   ELSE "valid"]_vars

\* Validate has found lock and temp directory and is about to return on an
\* environment whose ports are all bound
ValidateWithPortsInUseWitness ==
    \E p \in Procs :
        /\ pc[p] = "vEnv"
        /\ StillStable(p)
        /\ PortSet(loc[p].env.Ports) # {}
        /\ PortSet(loc[p].env.Ports) \subseteq bound


\* the cleanup --stale command of p returns nil with this step
StaleRunCompletes(p) ==
    /\ cli[p].phase \notin {"none", "done"}
    /\ cli'[p].phase = "done"
    /\ cli'[p].out \notin StaleErrors

\* C12: when a cleanup --stale command without --older-than returns with no
\* failed Cleanup, every environment whose lock file recorded the pid of an
\* exited process when the command began has lost its lock file, its temp
\* directory, its descriptor and its entry in the environment list.
AbandonedReclaimed ==
    [][\A p \in Procs :
          (StaleRunCompletes(p) /\ cli[p].cleanupOlderThan = "" /\ cli'[p].failed = 0) =>
              \A env \in cli[p].stale0 :
                  /\ env.LockFile \notin DOMAIN lockDir'
                  /\ env.TempDir \notin tmpDirs'
                  /\ env.EnvFile \notin DOMAIN envFiles'
                  /\ env.ID \notin DocIds']_vars

\* a step of the Cleanup that the cleanup --stale command of p runs
StaleCleanupStep(p) ==
    cli[p].phase = "cleanup" /\ loc[p].caller = "cleanup" /\ pc'[p] # pc[p]

\* the lock files of the environments whose owning process runs: those
\* returned and not cleaned up, and those being created
OwnedLocks ==
    {h.env.LockFile : h \in {g \in envs : ~g.cleaned /\ Running(g.owner)}}
        \cup {LockName(loc[q].id) :
                 q \in {r \in Procs : Running(r) /\ loc[r].caller = "create" /\ CreatedLock(r)}}

OwnedTempDirs ==
    {h.env.TempDir : h \in {g \in envs : ~g.cleaned /\ Running(g.owner)}}
        \cup {TmpPath(loc[q].id) :
                 q \in {r \in Procs : Running(r) /\ loc[r].caller = "create" /\ pc[r] = "envfile"}}

OwnedEnvFiles ==
    {h.env.EnvFile : h \in {g \in envs : ~g.cleaned /\ Running(g.owner)}}

\* C13: no step of the Cleanup run by cleanup --stale removes the lock file,
\* the temp directory or the descriptor of an environment whose owning
\* process is running, be the environment returned or still being created.
StaleCleanupSparesRunning ==
    [][\A p \in Procs :
          StaleCleanupStep(p) =>
              /\ \A f \in OwnedLocks \cap DOMAIN lockDir : f \in DOMAIN lockDir'
              /\ \A d \in OwnedTempDirs \cap tmpDirs : d \in tmpDirs'
              /\ \A f \in OwnedEnvFiles \cap DOMAIN envFiles : f \in DOMAIN envFiles']_vars

\* C20: the status of every entry of the state document is active exactly
\* when its pid is that of a running process, an entry with a pid of 0 or
\* less is stale, and no entry stores a status.
StatusMatchesLiveness ==
    \A i \in 1..Len(Document.environments) :
        LET env == Document.environments[i]
        IN  /\ (GetEnvironmentStatus(env) = StatusActive) <=> ~NotRunning(env.PID)
            /\ env.PID <= 0 => GetEnvironmentStatus(env) = StatusStale
            /\ "Status" \notin DOMAIN env

\* the step with which the AllocateRange call of p returns a base port
AllocateRangeSucceeds(p) ==
    /\ loc[p].caller = "AllocateRange"
    /\ pc[p] # "idle"
    /\ pc'[p] = "idle"
    /\ res'[p] = "ok"

\* the ports the call of p has found bindable in its current attempt, the
\* one whose probe listener it is closing included
FoundBindable(p) ==
    {loc[p].probes[k][1] : k \in {j \in 1..Len(loc[p].probes) : loc[p].probes[j][2]}}
        \cup ({loc[p].listener} \ {0})

\* C21: when AllocateRange(n), n > 0, returns basePort, StartPort <= basePort
\* and basePort + n <= EndPort, every port of [basePort, basePort+n) was
\* found bindable within the attempt that returned, every probe listener was
\* closed by the step that follows its Listen, and the call holds no port
\* when it returns.
AllocateRangeReturnsBindable ==
    [][\A p \in Procs :
          /\ (pc[p] = "close" /\ pc'[p] # pc[p]) =>
                 /\ loc[p].listener \in bound
                 /\ bound' = bound \ {loc[p].listener}
                 /\ loc'[p].listener = 0
          /\ AllocateRangeSucceeds(p) =>
                 LET basePort == loc'[p].bp
                     n == loc[p].n
                 IN  /\ n > 0
                     /\ StartPort <= basePort
                     /\ basePort + n <= EndPort
                     /\ {basePort + k : k \in 0..(n - 1)} = FoundBindable(p)
                     /\ loc'[p].listener = 0
                     /\ FoundBindable(p) \cap bound' \subseteq bound \ {loc[p].listener}]_vars

\* an AllocateRange call has returned a base port while other programs held
\* ports of the range
AllocatedRangeWitness ==
    \E p \in Procs :
        /\ pc[p] = "idle"
        /\ res[p] = "ok"
        /\ loc[p].bp > StartPort
        /\ OtherPorts \subseteq bound

\* the step of p in which an attempt of AllocateRange ends: a port of the range
\* is found bound, or the last port of the range is found bindable
AttemptFails(p) ==
    /\ loc[p].caller = "AllocateRange"
    /\ pc[p] = "listen"
    /\ ProbePort(p) \in bound
    /\ <<pc'[p], loc'[p]>> # <<pc[p], loc[p]>>

AttemptPasses(p) ==
    /\ loc[p].caller = "AllocateRange"
    /\ pc[p] = "close"
    /\ loc[p].i + 1 = loc[p].n
    /\ loc'[p] # loc[p]

\* AllocateRange makes at most MaxRetries attempts: it returns the base port
\* at the first attempt that passes, begins another attempt after a failed
\* one while fewer than MaxRetries have failed, and returns the exhaustion
\* error when MaxRetries have
AttemptsBounded ==
    [][\A p \in Procs :
          /\ (loc[p].caller = "AllocateRange" /\ pc[p] \in {"listen", "close"}) =>
                 loc[p].att + 1 <= MaxRetries
          /\ AttemptPasses(p) => (pc'[p] = "idle" /\ res'[p] = "ok")
          /\ AttemptFails(p) =>
                 IF loc[p].att + 1 = MaxRetries
                 THEN pc'[p] = "idle" /\ res'[p] = ErrUnableToAllocate
                 ELSE /\ pc'[p] = "listen"
                      /\ loc'[p].att = loc[p].att + 1
                      /\ res'[p] = res[p]
          /\ (loc[p].caller = "AllocateRange" /\ res'[p] = ErrUnableToAllocate
                 /\ res'[p] # res[p]) =>
                 (AttemptFails(p) /\ loc[p].att + 1 = MaxRetries)]_vars

\* every AllocateRange call returns
AllocateRangeTerminates ==
    \A p \in Procs : (pc[p] = "AllocateRange") ~> (pc[p] = "idle")

\* C22: AllocateRange terminates after at most MaxRetries attempts: with
\* success at the first attempt whose whole range is bindable, otherwise with
\* the exhaustion error after exactly MaxRetries failed attempts.
AllocateRangeBounded == AttemptsBounded /\ AllocateRangeTerminates

\* the last attempt the configuration allows is about to fail
LastAttemptFailsWitness ==
    \E p \in Procs :
        /\ loc[p].caller = "AllocateRange"
        /\ pc[p] = "listen"
        /\ loc[p].att + 1 = MaxRetries
        /\ loc[p].i > 0
        /\ ProbePort(p) \in bound

\* C30: AllocateRange(n) with n <= 0 returns the invalid-input error in its
\* first step, without a Listen on any port and without an attempt.
NonPositiveCountRejected ==
    [][\A p \in Procs :
          (pc[p] = "AllocateRange" /\ loc[p].n <= 0 /\ pc'[p] # pc[p]) =>
              /\ pc'[p] = "idle"
              /\ res'[p] = ErrPortsNeeded
              /\ loc'[p].bp = 0
              /\ bound' = bound]_vars

\* AllocateRange(0) or AllocateRange(-1) has returned its error while the
\* other caller is inside a call of its own
InvalidCountWitness ==
    \E p, q \in Procs :
        /\ pc[p] = "idle"
        /\ res[p] = ErrPortsNeeded
        /\ pc[q] = "close"

\* the probes of the AllocateSpecific call of p, the one that ends with the
\* step being taken included
Outcomes(p) == Append(loc[p].probes, <<ProbePort(p), pc[p] = "close">>)

\* the ports among the probes that were not found bindable, in their order
UnavailableOf(outcomes) ==
    LET failed == SelectSeq(outcomes, LAMBDA o : ~o[2])
    IN  [k \in 1..Len(failed) |-> failed[k][1]]

\* C29: AllocateSpecific probes every listed port, in input order and with no
\* early exit, a port counting as unavailable exactly when it is bound at its
\* probe; it returns nil exactly when every probe found its port bindable and
\* otherwise an error that lists the unavailable ports in input order.
AllocateSpecificListsUnavailable ==
    [][\A p \in Procs :
          /\ (loc[p].caller = "AllocateSpecific" /\ pc[p] = "listen"
                 /\ <<pc'[p], loc'[p]>> # <<pc[p], loc[p]>>) =>
                 (pc'[p] = "close" <=> ProbePort(p) \notin bound)
          /\ (loc[p].caller = "AllocateSpecific" /\ pc'[p] = "idle") =>
                 LET outcomes == Outcomes(p)
                     ports == loc[p].ports
                 IN  /\ Len(outcomes) = Len(ports)
                     /\ \A k \in 1..Len(ports) : outcomes[k][1] = ports[k]
                     /\ (res'[p] = "ok") <=> (\A k \in 1..Len(ports) : outcomes[k][2])
                     /\ res'[p] # "ok" =>
                            res'[p] = "ports unavailable: ["
                                          \o JoinPorts(UnavailableOf(outcomes)) \o "]"]_vars

\* AllocateSpecific(StartPort+1, StartPort) has found its first port bound and
\* is about to find its second port bound
TwoUnavailableWitness ==
    \E p \in Procs :
        /\ loc[p].caller = "AllocateSpecific"
        /\ pc[p] = "listen"
        /\ loc[p].ports = <<StartPort + 1, StartPort>>
        /\ loc[p].unavailable = <<StartPort + 1>>
        /\ ProbePort(p) \in bound

\* a step of p inside Generate
GenerateStep(p) == pc[p] = "gen" /\ <<pc'[p], loc'[p]>> # <<pc[p], loc[p]>>

\* a lock file or a temp directory exists for id
Taken(id) == LockName(id) \in DOMAIN lockDir \/ TmpPath(id) \in tmpDirs

\* C23: Generate returns an id only if no lock file and no temp directory
\* exists for it at its check; a candidate that collides is followed by a new
\* candidate and no error as long as fewer than MaxRetries candidates have
\* collided, and the error is returned exactly when the MaxRetries-th
\* candidate in a row collides.
GenerateAvoidsCollisions ==
    [][\A p \in Procs :
          GenerateStep(p) =>
              LET counter == loc[p].ctr
                  candidates == {CandidateID(loc[p].base, r, counter) : r \in Rands}
              IN  /\ counter < IdMaxRetries
                  /\ pc'[p] = "lock" =>
                         /\ loc'[p].id \in candidates
                         /\ ~Taken(loc'[p].id)
                         /\ res'[p] = res[p]
                  /\ pc'[p] # "lock" =>
                         /\ \E id \in candidates : Taken(id)
                         /\ IF counter + 1 = IdMaxRetries
                            THEN pc'[p] = "idle" /\ res'[p] = "errGenerate"
                            ELSE /\ pc'[p] = "gen"
                                 /\ loc'[p].ctr = counter + 1
                                 /\ res'[p] = res[p]]_vars

\* Generate has given up after its last candidate collided with a temp
\* directory that no lock file goes with
GenerateExhaustedWitness ==
    \E p \in Procs :
        /\ pc[p] = "idle"
        /\ res[p] = "errGenerate"
        /\ \A id \in LeftoverIds : Taken(id)
        /\ \E id \in LeftoverIds : ~IsLocked(id)

\* p's CreateLock reaches os.OpenFile(lockFile, O_CREATE|O_EXCL|O_WRONLY)
CreateLockOpens(p) == pc[p] = "lock" /\ pc'[p] # pc[p]

\* p's ReleaseLock returns nil
ReleaseLockReturns(p) == pc[p] = "release" /\ pc'[p] = "idle" /\ res'[p] = "released"

\* p's CreateLock removes the lock file it created, its metadata unwritten
CreateLockUndone(p) == pc[p] = "meta" /\ res'[p] = "errLockWrite" /\ pc'[p] = "idle"

\* C24: CreateLock(id) on an id whose lock file exists fails and leaves the
\* lock directory, the file's metadata included, as it was; CreateLock(id) on
\* an id without a lock file, as after ReleaseLock(id), creates the file and
\* goes on to write its metadata; a lock file comes into being only by a
\* CreateLock of its id and goes only by a ReleaseLock of its id (or by the
\* CreateLock that could not write its metadata)
CreateLockExcludes ==
    [][ /\ \A p \in Procs :
            /\ (CreateLockOpens(p) /\ IsLocked(loc[p].id))
                   => /\ res'[p] = "errLock"
                      /\ pc'[p] = "idle"
                      /\ lockDir' = lockDir
            /\ (CreateLockOpens(p) /\ ~IsLocked(loc[p].id))
                   => /\ pc'[p] = "meta"
                      /\ IsLocked(loc[p].id)'
                      /\ res'[p] = res[p]
            /\ ReleaseLockReturns(p) => ~IsLocked(loc[p].id)'
        /\ \A id \in LockIds :
            /\ (~IsLocked(id) /\ IsLocked(id)')
                   => \E p \in Procs : CreateLockOpens(p) /\ loc[p].id = id
            /\ (IsLocked(id) /\ ~IsLocked(id)')
                   => \E p \in Procs :
                         /\ loc[p].id = id
                         /\ ReleaseLockReturns(p) \/ CreateLockUndone(p)
      ]_vars

\* a CreateLock is about to fail on a lock that another caller wrote, while
\* the id it released before is locked again
DuplicateLockWitness ==
    \E p \in Procs, q \in Procs :
        /\ p # q
        /\ pc[p] = "lock"
        /\ LockName(loc[p].id) \in DOMAIN lockDir
        /\ lockDir[LockName(loc[p].id)] = LockMetadata(osProc[q], now, 1)
        /\ res[p] = "released"
        /\ res[q] = "locked"

\* C25: ReleaseLock(id) without a lock file of id returns nil and leaves the
\* lock directory as it was; ReleaseLock(id) returning nil leaves no lock of
\* id and every other lock file as it was, so that a second ReleaseLock(id)
\* right after it changes nothing
ReleaseLockIdempotent ==
    [][ \A p \in Procs :
          (pc[p] = "release" /\ pc'[p] = "idle") =>
             /\ ~IsLocked(loc[p].id) => (res'[p] = "released" /\ lockDir' = lockDir)
             /\ res'[p] = "released" =>
                   /\ DOMAIN lockDir' = DOMAIN lockDir \ {LockName(loc[p].id)}
                   /\ \A n \in DOMAIN lockDir' : lockDir'[n] = lockDir[n]
                   /\ ReleaseLock(loc[p].id)' = lockDir'
      ]_vars

\* a ReleaseLock is about to run on an id that has no lock file, right after
\* a ReleaseLock of the same caller returned nil, while another id is locked
ReleaseMissingWitness ==
    \E p \in Procs :
        /\ pc[p] = "release"
        /\ res[p] = "released"
        /\ ~IsLocked(loc[p].id)
        /\ \E id \in LockIds : IsLocked(id)

\* p's RecordEnvironment or RemoveEnvironment writes the state file and returns
Writes(p, op) == pc[p] = "sWrite" /\ sloc[p].op = op /\ pc'[p] = "idle"

\* the positions of the entries of id in a list of environments
PositionsOf(environments, id) ==
    {i \in 1..Len(environments) : environments[i].ID = id}

\* C26: RecordEnvironment(env) leaves exactly one entry of env.ID in the
\* state document, with env's worktree path, temp dir, lock file, descriptor
\* path and ports; it stands where the entry of env.ID stood before, or at
\* the end when there was none; every other entry is as before
RecordEnvironmentUpserts ==
    [][ \A p \in Procs : Writes(p, "record") =>
          LET env == sloc[p].env
              before == Document.environments
              after == DecodedState(stateFile').environments
              was == PositionsOf(before, env.ID)
              is == PositionsOf(after, env.ID)
          IN  /\ sres'[p].err = "none"
              /\ Cardinality(is) = 1
              /\ \A i \in is :
                    /\ after[i].WorktreePath = env.WorktreePath
                    /\ after[i].TempDir = env.TempDir
                    /\ after[i].LockFile = env.LockFile
                    /\ after[i].EnvFile = env.EnvFile
                    /\ after[i].Ports.BasePort = env.Ports.BasePort
                    /\ after[i].Ports.Count = env.Ports.Count
                    /\ after[i].Ports.Allocated =
                          [k \in 1..env.Ports.Count |-> env.Ports.BasePort + k - 1]
              /\ IF was = {}
                 THEN Len(after) = Len(before) + 1 /\ is = {Len(after)}
                 ELSE Len(after) = Len(before) /\ is \subseteq was
              /\ \A i \in 1..Len(before) : i \notin is => after[i] = before[i]
      ]_vars

\* an environment was recorded twice with different ports, another one in
\* between, and the document holds the later entry in the first place
RecordedTwiceWitness ==
    \E first \in opLog, second \in opLog :
        /\ first.op = "record" /\ second.op = "record"
        /\ first.id = second.id
        /\ first.n < second.n
        /\ first.entry.Ports # second.entry.Ports
        /\ Len(Document.environments) = 2
        /\ Document.environments[1] = second.entry

\* C27: RemoveEnvironment(id) leaves the entries of the other ids, each as it
\* was and in their order, and no entry of id; without an entry of id it
\* returns no error and the list is as before
RemoveEnvironmentFilters ==
    [][ \A p \in Procs : Writes(p, "remove") =>
          LET before == Document.environments
              after == DecodedState(stateFile').environments
          IN  /\ sres'[p].err = "none"
              /\ after = SelectSeq(before, LAMBDA e : e.ID # sloc[p].id)
              /\ PositionsOf(before, sloc[p].id) = {} => after = before
      ]_vars

\* the first of two recorded environments was removed and the second is left
RemovedFirstWitness ==
    \E rec \in opLog, rem \in opLog :
        /\ rec.op = "record" /\ rem.op = "remove"
        /\ rec.id = rem.id
        /\ rec.n < rem.n
        /\ Len(Document.environments) = 1
        /\ Document.environments[1].ID # rem.id

\* the Reconcile calls that returned before p's, as logged
EarlierReconciles == {o \in opLog : o.op = "reconcile"}

\* C28 as claimed: a Reconcile that scanned the lock directory as an earlier
\* Reconcile scanned it returns the earlier count and writes the earlier list
SameLocksSameList ==
    [][\A p \in Procs : ReconcileReturns(p) =>
          \A o \in EarlierReconciles :
              o.dir = sloc[p].dir =>
                  /\ sres'[p].count = Len(o.newState.environments)
                  /\ stateFile'.environments = o.newState.environments]_vars

\* C28: a Reconcile that scanned the lock directory as an earlier Reconcile
\* scanned it returns the earlier count; when it also found the descriptor
\* files as the earlier one found them, it writes the earlier list
ReconcileIdempotent ==
    [][\A p \in Procs : ReconcileReturns(p) =>
          \A o \in EarlierReconciles :
              o.dir = sloc[p].dir =>
                  /\ sres'[p].err = "none"
                  /\ sres'[p].count = Len(o.newState.environments)
                  /\ o.files = sloc[p].files =>
                        stateFile'.environments = o.newState.environments]_vars

\* two Reconcile calls returned that found the same lock of an environment
\* and the same descriptor, the second at a later time than the first
ReconciledTwiceWitness ==
    \E first \in EarlierReconciles, second \in EarlierReconciles :
        /\ first.n < second.n
        /\ first.dir = second.dir
        /\ first.files = second.files
        /\ first.newState.last_reconciled_at < second.newState.last_reconciled_at
        /\ Len(second.newState.environments) = 1
        /\ second.newState.environments[1].Ports.BasePort > 0
        /\ second.newState.environments[1].PID > 0

\* p's Generate returns an identifier
GenerateReturns(p) == pc[p] = "gen" /\ pc'[p] = "lock"

\* C31 as claimed: every identifier Generate returns is 12 characters long
GeneratedLengthTwelve ==
    [][\A p \in Procs :
          GenerateReturns(p) => Len(IsolationIDString(loc'[p].id)) = 12]_vars

\* C31: an identifier Generate returns from its first check is 12 characters
\* long; one it returns after collisions is the 12 characters followed by at
\* least four places of additional randomness and at least three of the counter
GeneratedLengthByAttempt ==
    [][\A p \in Procs :
          GenerateReturns(p) =>
              LET isolationID == IsolationIDString(loc'[p].id)
              IN  IF loc[p].ctr = 0
                  THEN Len(isolationID) = 12
                  ELSE Len(isolationID) >= 12 + 4 + 3]_vars

\* Generate has returned the identifier of its second candidate
RetriedIdWitness ==
    \E p \in Procs :
        /\ pc[p] = "lock"
        /\ loc[p].caller = "create"
        /\ loc[p].ctr > 0
        /\ Len(IsolationIDString(loc[p].id)) > 12

\* C32: GetPort(i) on PortRange{base, count} returns base + i and no error
\* when 0 <= i < count, and an error otherwise; Ports() returns count ports,
\* the i-th of them the port GetPort(i) returns
PortRangeIndexing ==
    [][\A p \in Procs :
          /\ (pc[p] = "GetPort" /\ pc'[p] = "idle") =>
                IF 0 <= loc[p].i /\ loc[p].i < loc[p].n
                THEN res'[p] = "nil" /\ loc'[p].bp = loc[p].bp + loc[p].i
                ELSE res'[p] = ErrIndexOutOfRange
          /\ (pc[p] = "Ports" /\ pc'[p] = "idle") =>
                /\ Len(loc'[p].ports) = loc[p].n
                /\ \A i \in 0..(loc[p].n - 1) :
                      /\ GetPort(PortRange(loc[p].bp, loc[p].n), i)[2] = FALSE
                      /\ loc'[p].ports[i + 1] = GetPort(PortRange(loc[p].bp, loc[p].n), i)[1]
                      /\ loc'[p].ports[i + 1] = loc[p].bp + i]_vars

\* GetPort is about to be called with the index Count, after a call of Ports
\* returned the three ports of a range
IndexAtCountWitness ==
    \E p \in Procs, q \in Procs :
        /\ pc[p] = "GetPort"
        /\ loc[p].n > 0
        /\ loc[p].i = loc[p].n
        /\ pc[q] = "idle"
        /\ Len(loc[q].ports) = 3

\* a step of p inside a Cleanup call
CleanupStep(p) == loc[p].caller = "cleanup" /\ pc[p] \in {"rmtmp", "rmenv", "unlock"}
                     /\ pc'[p] # pc[p]

\* C33: no step of Cleanup(env) changes the lock file, the temp directory or
\* the descriptor file of another provisioned environment, of whatever
\* worktree, and Validate of that environment succeeds after the step as before
CleanupSparesOthers ==
    [][\A p \in Procs :
          CleanupStep(p) =>
              \A h \in envs :
                  (h.env.ID # loc[p].env.ID /\ Provisioned(h.env)) =>
                      /\ h.env.LockFile \in DOMAIN lockDir'
                      /\ lockDir'[h.env.LockFile] = lockDir[h.env.LockFile]
                      /\ h.env.TempDir \in tmpDirs'
                      /\ h.env.EnvFile \in DOMAIN envFiles'
                      /\ envFiles'[h.env.EnvFile] = envFiles[h.env.EnvFile]
                      /\ ValidateNow(h.env)' = ValidateNow(h.env)]_vars

\* C34: AllocateRange(n) with 0 < n <= EndPort - StartPort has a candidate
\* base port, StartPort at least, so it does not fail for want of range: it
\* begins to probe the ports of a candidate b with StartPort <= b and
\* b + n <= EndPort
RangeThatFitsIsTried ==
    [][\A p \in Procs :
          (pc[p] = "AllocateRange" /\ pc'[p] # pc[p]
              /\ 0 < loc[p].n /\ loc[p].n <= EndPort - StartPort) =>
                 /\ res'[p] # ErrInsufficientRange
                 /\ pc'[p] = "listen"
                 /\ StartPort <= loc'[p].bp
                 /\ loc'[p].bp + loc[p].n <= EndPort]_vars

\* the call of p created the lock file of its id and the file is there
HoldsLock(p) == p \in won[loc[p].id] /\ IsLocked(loc[p].id)

\* the AllocateRange of the call of p has returned a base port
HasPorts(p) == loc[p].n > 0 /\ StartPort <= loc[p].bp /\ loc[p].bp + loc[p].n <= EndPort

\* C35: CreateEnvironment creates the lock file of a generated id before it
\* has ports or a temp directory; it probes ports and creates the temp
\* directory only while it holds the lock it created; it writes the
\* descriptor only when it holds that lock and its own AllocateRange returned
\* the ports it writes, after the temp directory was created
CreateStepsInOrder ==
    [][\A p \in Procs :
          CreateStep(p) =>
              /\ pc[p] = "lock" => (loc[p].id # NoId /\ ~HasPorts(p)
                                       /\ tmpDirs' = tmpDirs /\ envFiles' = envFiles)
              /\ pc[p] = "alloc" => HoldsLock(p)
              /\ pc'[p] = "mkdir" => (HoldsLock(p) /\ pc[p] = "alloc")
              /\ ~(tmpDirs' \subseteq tmpDirs) =>
                    /\ pc[p] = "mkdir"
                    /\ HoldsLock(p)
                    /\ HasPorts(p)
                    /\ envFiles' = envFiles
              /\ (\E f \in DOMAIN envFiles' :
                      f \notin DOMAIN envFiles \/ envFiles'[f] # envFiles[f]) =>
                    /\ pc[p] = "envfile"
                    /\ HoldsLock(p)
                    /\ HasPorts(p)
                    /\ TmpPath(loc[p].id) \in tmpDirs
                    /\ envFiles'[EnvFilePath(loc[p].w)].ISOLATION_ID = loc[p].id
                    /\ envFiles'[EnvFilePath(loc[p].w)].PORT_BASE = ToString(loc[p].bp)]_vars

\* one call has written its descriptor and returned its environment, and a
\* call that was refused its ports has returned its error
CreatedAndRefusedWitness ==
    \E h \in envs, q \in Procs :
        /\ Provisioned(h.env)
        /\ res[h.owner] = "ok"
        /\ pc[q] = "idle"
        /\ res[q] = "errAlloc"

\* the list command of p gets its list from ListEnvironments
ListReturns(p) == sloc[p].op = "list" /\ pc'[p] = "idle" /\ pc[p] # "idle"

\* C36: the list command without --reconcile shows every environment that a
\* create command had returned when the list command began and that no one
\* has begun to clean up
ListShowsCreated ==
    [][\A p \in Procs :
          ListReturns(p) =>
              \A h \in sloc[p].live :
                  (h \in envs /\ \A q \in Procs : loc[q].env # h.env) =>
                      /\ sres'[p].err = "none"
                      /\ \E i \in 1..Len(sres'[p].list) :
                            sres'[p].list[i].ID = h.env.ID]_vars

\* createEnvFile of the call of p writes the descriptor and CreateEnvironment
\* returns the environment
DescriptorWritten(p) == pc[p] = "envfile" /\ pc'[p] = "idle" /\ res'[p] = "ok"

DocumentIdsUnique ==
    \A i \in 1..Len(Document.environments), j \in 1..Len(Document.environments) :
        i # j => Document.environments[i].ID # Document.environments[j].ID

\* Reconcile has listed the seeded environment, RecordEnvironment has been
\* called for its id and for another id, and the document holds two entries
RecordedOverReconciledWitness ==
    /\ Len(Document.environments) = 2
    /\ \E r \in opLog, o \in opLog :
          /\ r.op = "reconcile" /\ Len(r.newState.environments) = 1
          /\ o.op = "record" /\ o.n > r.n
          /\ o.id = r.newState.environments[1].ID

\* p holds a flock on the state file
HoldsFlock(p) == flockEx = p \/ p \in flockSh

\* C39: the state store cannot deadlock: a caller holds the file lock only
\* while it holds the mutex of its Manager, a caller that has returned holds
\* neither, and under fair scheduling every call of RecordEnvironment,
\* RemoveEnvironment, ListEnvironments, GetEnvironment and Reconcile returns
StoreCallsReturn ==
    /\ [](\A p \in Procs : HoldsFlock(p) => mu[osProc[p]] = p)
    /\ [](\A p \in Procs : pc[p] = "idle" => ~HoldsFlock(p) /\ mu[osProc[p]] # p)
    /\ \A p \in Procs : (pc[p] # "idle") ~> (pc[p] = "idle")

\* a reader holds the shared lock and is about to fail on the file that a
\* Reconcile of another process has truncated, and that Reconcile waits for
\* the exclusive lock
BlockedBehindFailingReaderWitness ==
    \E p \in Procs, q \in Procs :
        /\ osProc[p] # osProc[q]
        /\ pc[p] = "sDecode" /\ p \in flockSh /\ stateFile = EmptyFile
        /\ pc[q] = "sFlock" /\ sloc[q].op = "reconcile"
        /\ ~ENABLED lockFile(q)

\* the port record of a document entry is consistent
ConsistentPorts(ports) ==
    /\ ports.Count >= 0
    /\ ports.Allocated = [i \in 1..ports.Count |-> ports.BasePort + (i - 1)]

\* C40: every entry of the state document has count >= 0 and the allocated
\* list basePort .. basePort+count-1, whether RecordEnvironment wrote it or
\* Reconcile built it from a descriptor that may be missing, lack PORT_BASE or
\* PORT_COUNT, or hold non-numeric values
PortRecordsConsistent ==
    \A i \in 1..Len(Document.environments) : ConsistentPorts(Document.environments[i].Ports)

====
